---- MODULE Spec2Model ----
(***************************************************************************)
(* The two-stage declare/transfer pipeline of tools/sam_declare:           *)
(* main() enumerates a directory and feeds file_queue; declare workers     *)
(* (_declare_callback) register each file with the catalog and feed        *)
(* declare_queue; transfer workers (_transfer_callback) copy each file and *)
(* optionally unlink the local file and its metadata sidecar.              *)
(*                                                                         *)
(* Processes interleave only at queue operations, catalog calls and file   *)
(* system calls, so each worker iteration is split at those points.        *)
(* The catalog, the copy service and the file system outside the program   *)
(* are the environment: their answers are nondeterministic choices.        *)
(***************************************************************************)
EXTENDS Integers, Sequences, FiniteSets, TLC

(* ------------------------- program constants -------------------------- *)
TRANSFER_NPROCESS_MAX == 10
DECLARE_NPROCESS_MAX == 4
NFILES_MIN == 10
\* max requests per second per process (5.0)
SAM_RPS_MAX == 5
\* SMEAR_MAX = 1.1, in units of 1/SmearDen
SMEAR_MAX == 11
SmearDen == 10
\* clock ticks per second: a tick is 0.1 ms
TicksPerSecond == 10000
\* the sentinel; a file item is a positive index, so 0 is no file
HEARTBEAT == 0

(* ------------------------------ bounds -------------------------------- *)
\* directory entries enumerated in a run of Spec
MaxFiles == 2
\* environment faults (unexpected exceptions, rejected metadata, failing
\* copies, permission errors, files removed from outside) in a run of Spec
MaxFaults == 2
\* environment faults in a run of LateSpec
LateFaults == 1

(* ------------------------------ names --------------------------------- *)
\* A file name is modelled by its leading token ("data" stands for every
\* token the program does not look for) and its ending: the suffix ".json",
\* or else its last character.
startswith(name, tok) == name.prefix = tok

last_char(name) == IF name.last = ".json" THEN "n" ELSE name.last

\* pathlib's rglob('*[!json]'): the name's last character is none of j, s, o, n
rglob_match(name) == last_char(name) \notin {"j", "s", "o", "n"}

is_virtual_file(name) == startswith(name, "stage1") \/ startswith(name, "reco2")

\* get_filename: reco1 -> stage0, reco2 -> stage1, Supplemental -> hist
get_filename(name) ==
    [name EXCEPT !.prefix = CASE name.prefix = "reco1" -> "stage0"
                              [] name.prefix = "reco2" -> "stage1"
                              [] name.prefix = "Supplemental" -> "hist"
                              [] OTHER -> name.prefix]

\* A directory entry: its name, whether it is a regular file, whether its
\* sidecar <name>.json exists and whether the catalog already holds its name.
Entry(prefix, last, isfile, sidecar, registered) ==
    [name |-> [prefix |-> prefix, last |-> last], isfile |-> isfile,
     sidecar |-> sidecar, registered |-> registered]

\* The entries a directory is made of: data and virtual files with and without
\* sidecar and catalog record, the names get_metadata refuses, and the
\* entries the enumeration passes over (a directory, a name ending in n such
\* as x.bin, a sidecar).
Entries ==
    { Entry(p, "t", TRUE, s, r) : p \in {"data", "stage1", "reco2"},
                                  s \in BOOLEAN, r \in BOOLEAN }
    \cup { Entry("reco1", "t", TRUE, TRUE, FALSE),
           Entry("hist", "t", TRUE, FALSE, FALSE),
           Entry("Supplemental", "t", TRUE, TRUE, FALSE),
           Entry("data", "t", FALSE, FALSE, FALSE),
           Entry("data", "n", TRUE, FALSE, FALSE),
           Entry("data", ".json", TRUE, FALSE, FALSE) }

VARIABLES
    budget,          \* environment faults still allowed in this run
    delete,          \* args.delete
    validate,        \* args.validate
    tree,            \* entries enumerated so far; a file is its index
    srcFiles,        \* files present on the local disk
    metaFiles,       \* files whose sidecar is present on the local disk
    catalog,         \* files whose name the catalog holds
    located,         \* files given a location with addFileLocation
    drv,             \* main(): "scan", "join_declare", "join_transfer", "done"
    nfiles_reset,
    nfiles,
    declare_processes,   \* len(declare_processes)
    transfer_processes,  \* len(transfer_processes)
    joined,          \* processes of the current join loop already joined
    file_queue,
    declare_queue,
    dpc,             \* declare worker: "none","pop","declare","limit","exited","crashed"
    ditem,           \* declare worker's local item (0 once the iteration is over)
    dvirt,           \* declare worker's local is_virtual: {} (unbound), {TRUE}, {FALSE}
    tpc,             \* transfer worker: "none","pop","copy","cleanup","exited","crashed"
    titem,           \* transfer worker's local item (0 once the iteration is over)
    tresult,         \* transfer worker's local result (-1 once the iteration is over)
    puts,            \* per file: times put on file_queue
    attempts,        \* per file: calls of declare_file
    outcome,         \* per file: how its declare_file call ended
    forwarded,       \* per file: times put on declare_queue
    limits,          \* per file: runs of the rate limiter after its attempt
    hbPut,           \* heartbeats put on declare_queue
    sam_calls,       \* per file: the SAMWeb_Client calls made for it, in order
    hbPopped,        \* heartbeats popped from declare_queue
    copies,          \* per file: calls of ifdh_cp
    status,          \* per file: status of its last ifdh_cp call
    srcUnlink,       \* per file: how item.unlink() ended
    metaUnlink,      \* per file: how meta_filename.unlink() ended
    \* the same program with the items' identity forgotten (PoolSpec)
    p_drv,               \* main(): "scan", "join_declare", "join_transfer", "done"
    p_scanned,           \* entries enumerated so far
    p_nfiles_reset,
    p_nfiles,
    p_since_spawn,       \* log: qualifying files enumerated since a process was last started
    p_declare_processes, \* len(declare_processes)
    p_transfer_processes,\* len(transfer_processes)
    p_joined,            \* processes of the current join loop already joined
    p_file_queue,        \* number of items in file_queue
    p_declare_queue,     \* number of files and of heartbeats in declare_queue
    p_dpc,               \* declare worker: "none","pop","declare","exited","crashed"
    p_tpc,               \* transfer worker: "none","pop","copy","exited","crashed"
    p_popped_after,      \* log: the pools in which a worker popped an item while
                         \* another worker of the pool had been ended by an exception
    \* one declare worker's loop against the clock (LimiterSpec)
    l_pc,                \* "get", "declare", "limit"
    l_smear,             \* the smoothing factor in force, in units of 1/SmearDen
    l_clock,             \* the time, in ticks
    l_now,               \* the worker's local now: start of the current attempt
    l_dt,                \* the worker's local dt, in ticks
    l_n,                 \* log: attempts started
    l_first,             \* log: start of the first attempt
    l_prev,              \* log: start of the attempt before the current one
    l_slept,             \* log: ticks slept by the limiter in the last iteration
    \* single calls of main's entry and of the helper functions (UtilSpec)
    u_environ,           \* os.environ: per variable {} (unset) or {value}
    u_call,              \* the call made: its name and arguments
    u_ret,               \* what the call returned or raised
    \* GLOBUSSessionManager (GlobusSpec)
    g_task,              \* self._task_data: an object, or 0 for None
    g_rm,                \* self._rm_task_data: an object, or 0 for None
    g_titems,            \* per TransferData object: its items
    g_ritems,            \* per DeleteData object: its items
    g_running,           \* self._running
    g_created,           \* objects made so far
    g_main,              \* main thread: "idle" or its line in add_file
    g_file,              \* add_file: the file being added
    g_ref,               \* add_file: the object read from self
    g_next,              \* the next file the main loop adds
    g_tpc,               \* the thread's line in _threaded_submit
    g_ltask,             \* _threaded_submit: task_data
    g_lrm,               \* _threaded_submit: rm_task_data
    g_tid,               \* _threaded_submit: task_id
    g_transfers,         \* log: transfer tasks submitted, with their status
    g_deletes,           \* log: delete tasks submitted
    \* SAMProjectManager (SamSpec)
    s_class,             \* "sam" (sam.py) or "derived" (sam_derived.py)
    s_dataset,           \* countFiles(self.dims)
    s_nfiles,            \* self.nfiles
    s_pc,                \* the with statement: new, body, leaving, exited, raised
    s_calls,             \* log: startProject / endProject calls made
    s_check,             \* check_locality as the workers got it
    s_started,           \* start(): "no", "False" (returned False) or "yes"
    s_wpc,               \* per worker: its position in _threaded_process_next
    s_wfile,             \* per worker: next_file
    s_remaining,         \* files of the project getNextFile has not handed out
    s_queue,             \* self._queue (sam.py) / self._done_queue
    s_log,               \* per file: what a worker did with it, in order
    s_ret,               \* what the last start() or get_file() returned or raised
    s_returned,          \* per file: times get_file returned it
    s_joined             \* __exit__: processes joined so far

world == <<delete, validate>>
disk == <<srcFiles, metaFiles>>
driver == <<drv, nfiles_reset, nfiles, declare_processes, transfer_processes, joined>>
dvars == <<dpc, ditem, dvirt>>
tvars == <<tpc, titem, tresult>>
dlog == <<attempts, outcome, forwarded, limits, hbPut, sam_calls>>
tlog == <<hbPopped, copies, status, srcUnlink, metaUnlink>>
pipeline == <<world, budget, tree, puts, disk, catalog, located, driver, file_queue,
              declare_queue, dvars, tvars, dlog, tlog>>
p_driver == <<p_drv, p_scanned, p_nfiles_reset, p_nfiles, p_since_spawn, p_declare_processes,
              p_transfer_processes, p_joined>>
pool == <<p_driver, p_file_queue, p_declare_queue, p_dpc, p_tpc, p_popped_after>>
limiter == <<l_pc, l_smear, l_clock, l_now, l_dt, l_n, l_first, l_prev, l_slept>>
util == <<u_environ, u_call, u_ret>>
globus == <<g_task, g_rm, g_titems, g_ritems, g_running, g_created, g_main, g_file,
            g_ref, g_next, g_tpc, g_ltask, g_lrm, g_tid, g_transfers, g_deletes>>
samproj == <<s_class, s_dataset, s_nfiles, s_pc, s_calls, s_check, s_started, s_wpc,
             s_wfile, s_remaining, s_queue, s_log, s_ret, s_returned, s_joined>>
managers == <<globus, samproj>>
vars == <<pipeline, pool, limiter, util, managers>>

DWorkers == 1..DECLARE_NPROCESS_MAX
TWorkers == 1..TRANSFER_NPROCESS_MAX
Files == 1..Len(tree)
name_of(f) == tree[f].name

PipelineInit ==
    /\ budget = MaxFaults
    /\ tree = <<>>
    /\ srcFiles = {}
    /\ metaFiles = {}
    /\ catalog = {}
    /\ located = {}
    /\ drv = "scan"
    /\ nfiles_reset = 0
    /\ nfiles = 0
    /\ declare_processes = 0
    /\ transfer_processes = 0
    /\ joined = 0
    /\ file_queue = <<>>
    /\ declare_queue = <<>>
    /\ dpc = [w \in DWorkers |-> "none"]
    /\ ditem = [w \in DWorkers |-> 0]
    /\ dvirt = [w \in DWorkers |-> {}]
    /\ tpc = [w \in TWorkers |-> "none"]
    /\ titem = [w \in TWorkers |-> 0]
    /\ tresult = [w \in TWorkers |-> -1]
    /\ puts = [f \in 1..MaxFiles |-> 0]
    /\ attempts = [f \in 1..MaxFiles |-> 0]
    /\ outcome = [f \in 1..MaxFiles |-> "none"]
    /\ forwarded = [f \in 1..MaxFiles |-> 0]
    /\ limits = [f \in 1..MaxFiles |-> 0]
    /\ hbPut = 0
    /\ sam_calls = [f \in 1..MaxFiles |-> <<>>]
    /\ hbPopped = 0
    /\ copies = [f \in 1..MaxFiles |-> 0]
    /\ status = [f \in 1..MaxFiles |-> -1]
    /\ srcUnlink = [f \in 1..MaxFiles |-> "none"]
    /\ metaUnlink = [f \in 1..MaxFiles |-> "none"]

PoolInit ==
    /\ p_drv = "scan"
    /\ p_scanned = 0
    /\ p_nfiles_reset = 0
    /\ p_nfiles = 0
    /\ p_since_spawn = 0
    /\ p_declare_processes = 0
    /\ p_transfer_processes = 0
    /\ p_joined = 0
    /\ p_file_queue = 0
    /\ p_declare_queue = [file |-> 0, heartbeat |-> 0]
    /\ p_dpc = [w \in DWorkers |-> "none"]
    /\ p_tpc = [w \in TWorkers |-> "none"]
    /\ p_popped_after = {}

LimiterInit ==
    /\ l_pc = "get"
    /\ l_smear = SMEAR_MAX
    /\ l_clock = 0
    /\ l_now = 0
    /\ l_dt = 0
    /\ l_n = 0
    /\ l_first = 0
    /\ l_prev = 0
    /\ l_slept = 0

\* variables named in os.environ by the programs, and values they may hold
EnvVars == {"____TEST", "IFDH_PROXY_ENABLE"}
EnvValues == {"0", "1", "dummy"}

UtilInit ==
    /\ u_environ = [v \in EnvVars |-> {}]
    /\ u_call = <<"none">>
    /\ u_ret = <<>>

\* files the main thread adds to the Globus session in a run
MaxAdds == 3
GFiles == 1..MaxAdds
\* TransferData / DeleteData objects; 0 is None
GObjects == 1..MaxAdds

GlobusInit ==
    /\ g_task = 0
    /\ g_rm = 0
    /\ g_titems = [o \in GObjects |-> <<>>]
    /\ g_ritems = [o \in GObjects |-> <<>>]
    /\ g_running = FALSE
    /\ g_created = 0
    /\ g_main = "idle"
    /\ g_file = 0
    /\ g_ref = 0
    /\ g_next = 1
    /\ g_tpc = "none"
    /\ g_ltask = 0
    /\ g_lrm = 0
    /\ g_tid = 0
    /\ g_transfers = <<>>
    /\ g_deletes = <<>>

\* files of the SAM dataset, worker processes (self._parallel)
MaxSamFiles == 2
SamParallel == 2
SamFiles == 1..MaxSamFiles
SamWorkers == 1..SamParallel
\* what file_locality returns, or that it raises
Localities == {"ONLINE", "NEARLINE", "ONLINE_AND_NEARLINE", "error"}

\* a manager not yet constructed
SamIdle ==
    /\ s_class = "sam"
    /\ s_dataset = 0
    /\ s_remaining = {}
    /\ s_nfiles = 0
    /\ s_pc = "none"
    /\ s_calls = <<>>
    /\ s_check = FALSE
    /\ s_started = "no"
    /\ s_wpc = [w \in SamWorkers |-> "none"]
    /\ s_wfile = [w \in SamWorkers |-> 0]
    /\ s_queue = <<>>
    /\ s_log = [f \in SamFiles |-> <<>>]
    /\ s_ret = "none"
    /\ s_returned = [f \in SamFiles |-> 0]
    /\ s_joined = 0

ManagersInit == GlobusInit /\ SamIdle

Init == delete \in BOOLEAN /\ validate \in BOOLEAN /\ PipelineInit /\ PoolInit /\ LimiterInit /\ UtilInit /\ ManagersInit

(* ------------------------------ main() -------------------------------- *)
\* variants of spawns: the batch size ignored, and the batch size halved
spawns_always(reset, ndeclare) == TRUE
spawns_half(reset, ndeclare) == 2 * reset > NFILES_MIN \/ ndeclare = 0

\* if nfiles_reset > NFILES_MIN or len(declare_processes) == 0
spawns_at_min(reset, ndeclare) == reset >= NFILES_MIN \/ ndeclare = 0

spawns(reset, ndeclare) == reset > NFILES_MIN \/ ndeclare = 0

\* variant of below_ceiling: no ceiling
below_ceiling_off(n, max) == TRUE

\* if len(declare_processes) < DECLARE_NPROCESS_MAX, and the same for
\* transfer_processes
below_ceiling(n, max) == n < max

\* One turn of `for f in files`: the enumeration yields entry e.
Scan(e) ==
    /\ drv = "scan"
    /\ Len(tree) < MaxFiles
    /\ e \in Entries
    /\ LET f == Len(tree) + 1
           qualifies == /\ rglob_match(e.name)
                        /\ e.isfile
                        /\ ~startswith(e.name, "Supplemental")
           spawn == qualifies /\ spawns(nfiles_reset + 1, declare_processes)
           spawnD == spawn /\ below_ceiling(declare_processes, DECLARE_NPROCESS_MAX)
           spawnT == spawn /\ below_ceiling(transfer_processes, TRANSFER_NPROCESS_MAX)
       IN /\ tree' = Append(tree, e)
          /\ srcFiles' = IF e.isfile THEN srcFiles \cup {f} ELSE srcFiles
          /\ metaFiles' = IF e.sidecar THEN metaFiles \cup {f} ELSE metaFiles
          /\ catalog' = IF e.registered THEN catalog \cup {f} ELSE catalog
          /\ file_queue' = IF qualifies THEN Append(file_queue, f) ELSE file_queue
          /\ puts' = IF qualifies THEN [puts EXCEPT ![f] = @ + 1] ELSE puts
          /\ nfiles' = IF qualifies THEN nfiles + 1 ELSE nfiles
          /\ nfiles_reset' = IF spawn THEN 0
                             ELSE IF qualifies THEN nfiles_reset + 1
                             ELSE nfiles_reset
          /\ declare_processes' = IF spawnD THEN declare_processes + 1 ELSE declare_processes
          /\ transfer_processes' = IF spawnT THEN transfer_processes + 1 ELSE transfer_processes
          /\ dpc' = IF spawnD THEN [dpc EXCEPT ![declare_processes + 1] = "pop"] ELSE dpc
          /\ tpc' = IF spawnT THEN [tpc EXCEPT ![transfer_processes + 1] = "pop"] ELSE tpc
    /\ UNCHANGED <<util, managers, limiter, pool, world, budget, located, drv, joined, declare_queue, ditem, dvirt,
                   titem, tresult, dlog, tlog>>

\* The enumeration is exhausted: the for loop ends.
ScanEnd ==
    /\ drv = "scan"
    /\ drv' = "join_declare"
    /\ joined' = 0
    /\ UNCHANGED <<util, managers, limiter, pool, world, budget, tree, puts, disk, catalog, located, nfiles_reset, nfiles,
                   declare_processes, transfer_processes, file_queue, declare_queue,
                   dvars, tvars, dlog, tlog>>

\* variants of Ended: join returns only for a worker that left its loop by the
\* timeout, and join returns at once
Ended_by_timeout_only(pc) == pc = "exited"
Ended_at_once(pc) == TRUE

\* Process.join returns once the process has ended, however it ended
Ended(pc) == pc \in {"exited", "crashed"}

\* for p in declare_processes: p.join()
JoinDeclare ==
    /\ drv = "join_declare"
    /\ IF joined < declare_processes
       THEN /\ Ended(dpc[joined + 1])
            /\ joined' = joined + 1
            /\ drv' = drv
       ELSE /\ joined' = 0
            /\ drv' = "join_transfer"
    /\ UNCHANGED <<util, managers, limiter, pool, world, budget, tree, puts, disk, catalog, located, nfiles_reset, nfiles,
                   declare_processes, transfer_processes, file_queue, declare_queue,
                   dvars, tvars, dlog, tlog>>

\* for p in transfer_processes: p.join()
JoinTransfer ==
    /\ drv = "join_transfer"
    /\ IF joined < transfer_processes
       THEN /\ Ended(tpc[joined + 1])
            /\ joined' = joined + 1
            /\ drv' = drv
       ELSE /\ joined' = joined
            /\ drv' = "done"
    /\ UNCHANGED <<util, managers, limiter, pool, world, budget, tree, puts, disk, catalog, located, nfiles_reset, nfiles,
                   declare_processes, transfer_processes, file_queue, declare_queue,
                   dvars, tvars, dlog, tlog>>

(* --------------------------- declare_file ----------------------------- *)
\* What the environment does to one declare_file call: nothing, the catalog
\* rejects the metadata, an unanticipated exception while reading the sidecar
\* or in declareFile, an unanticipated exception in addFileLocation.
DeclareEnv == {"none", "invalid", "error", "loc_error"}

\* get_metadata(filename, do_file_size, do_checksum): "ok" or the exception.
get_metadata(f, do_file_ops) ==
    LET n == name_of(f)
    IN IF startswith(n, "hist") THEN "RuntimeError"
       ELSE IF f \notin metaFiles THEN "MetadataNotFoundException"
       ELSE IF startswith(n, "reco1") THEN "RuntimeError"
       ELSE IF do_file_ops /\ f \notin srcFiles THEN "FileNotFoundError"
       ELSE "ok"

\* declare_file(filename, dest, validate, delete=False): "Declared" or the
\* exception it raises.
declare_file(f, env) ==
    LET is_virtual == is_virtual_file(get_filename(name_of(f)))
        d == get_metadata(f, ~is_virtual)
    IN IF d # "ok" THEN d
       ELSE IF env = "invalid" THEN "InvalidMetadata"
       ELSE IF env = "error" THEN "OtherError"
       ELSE IF f \in catalog THEN "FileAlreadyExists"
       ELSE IF env = "loc_error" /\ ~is_virtual THEN "LocationError"
       ELSE "Declared"

\* variant of declare_file_calls: the location is added for virtual files too
declare_file_calls_locate_all(f, env, val) ==
    LET is_virtual == is_virtual_file(get_filename(name_of(f)))
        step1 == IF val THEN <<[call |-> "validateFileMetadata",
                                ok |-> env # "invalid"]>>
                 ELSE <<>>
        declared == [call |-> "declareFile",
                     ok |-> env \notin {"invalid", "error"} /\ f \notin catalog]
        added == [call |-> "addFileLocation", ok |-> env # "loc_error"]
    IN IF get_metadata(f, ~is_virtual) # "ok" THEN <<>>
       ELSE IF val /\ env = "invalid" THEN step1
       ELSE IF ~declared.ok THEN Append(step1, declared)
       ELSE step1 \o <<declared, added>>

\* the SAMWeb_Client calls declare_file makes, in order, each with whether it
\* returned (ok) or raised; a call that raises ends declare_file.  Invalid
\* metadata is refused by validateFileMetadata when validation is requested,
\* else by declareFile.
declare_file_calls(f, env, val) ==
    LET is_virtual == is_virtual_file(get_filename(name_of(f)))
        step1 == IF val THEN <<[call |-> "validateFileMetadata",
                                ok |-> env # "invalid"]>>
                 ELSE <<>>
        declared == [call |-> "declareFile",
                     ok |-> env \notin {"invalid", "error"} /\ f \notin catalog]
        added == [call |-> "addFileLocation", ok |-> env # "loc_error"]
    IN IF get_metadata(f, ~is_virtual) # "ok" THEN <<>>
       ELSE IF val /\ env = "invalid" THEN step1
       ELSE IF ~declared.ok THEN Append(step1, declared)
       ELSE IF is_virtual THEN Append(step1, declared)
       ELSE step1 \o <<declared, added>>

\* the except clauses of _declare_callback that put a heartbeat
HeartbeatOutcomes == {"MetadataNotFoundException", "InvalidMetadata", "FileNotFoundError"}

\* variant of declare_put: a file without metadata is forwarded like a
\* declared one
declare_put_forward(f, out, local) ==
    CASE out \in {"Declared", "MetadataNotFoundException"} ->
             [raise |-> FALSE,
              put |-> IF ~is_virtual_file(name_of(f)) THEN <<f>> ELSE <<>>]
      [] out = "FileAlreadyExists" ->
             [raise |-> local = {},
              put |-> IF local = {FALSE} THEN <<f>> ELSE <<>>]
      [] out \in {"InvalidMetadata", "FileNotFoundError"} ->
             [raise |-> FALSE, put |-> <<HEARTBEAT>>]
      [] OTHER -> [raise |-> TRUE, put |-> <<>>]

\* variant of declare_put: the skipped item itself is put where the heartbeat
\* should go
declare_put_item_for_heartbeat(f, out, local) ==
    CASE out = "Declared" ->
             [raise |-> FALSE,
              put |-> IF ~is_virtual_file(name_of(f)) THEN <<f>> ELSE <<>>]
      [] out = "FileAlreadyExists" ->
             [raise |-> local = {},
              put |-> IF local = {FALSE} THEN <<f>> ELSE <<>>]
      [] out \in HeartbeatOutcomes -> [raise |-> FALSE, put |-> <<f>>]
      [] OTHER -> [raise |-> TRUE, put |-> <<>>]

\* variant of declare_put: a registered virtual item puts a heartbeat
declare_put_heartbeat_for_virtual(f, out, local) ==
    CASE out = "Declared" ->
             [raise |-> FALSE,
              put |-> IF ~is_virtual_file(name_of(f)) THEN <<f>> ELSE <<HEARTBEAT>>]
      [] out = "FileAlreadyExists" ->
             [raise |-> local = {},
              put |-> IF local = {FALSE} THEN <<f>> ELSE <<>>]
      [] out \in HeartbeatOutcomes -> [raise |-> FALSE, put |-> <<HEARTBEAT>>]
      [] OTHER -> [raise |-> TRUE, put |-> <<>>]

\* What one iteration of _declare_callback does after declare_file ended with
\* `out`: `put` is what it puts on _declare_queue (<<item>>, <<HEARTBEAT>> or
\* <<>>) and `raise` whether the iteration ends with an uncaught exception.
\* `local` is the worker's own is_virtual variable, assigned only in the try
\* body: {} while unbound, else {TRUE} or {FALSE}.
declare_put(f, out, local) ==
    CASE out = "Declared" ->
             [raise |-> FALSE,
              put |-> IF ~is_virtual_file(name_of(f)) THEN <<f>> ELSE <<>>]
      [] out = "FileAlreadyExists" ->
             [raise |-> local = {},
              put |-> IF local = {FALSE} THEN <<f>> ELSE <<>>]
      [] out \in HeartbeatOutcomes -> [raise |-> FALSE, put |-> <<HEARTBEAT>>]
      [] OTHER -> [raise |-> TRUE, put |-> <<>>]

(* ------------------------- _declare_callback -------------------------- *)
\* variant of after_try: the except clauses that put a heartbeat go straight
\* to the next pop
after_try_continue(out) == IF out \in HeartbeatOutcomes THEN "pop" ELSE "limit"

\* where an iteration goes once its try statement has ended without an
\* uncaught exception: no clause leaves the loop body, so on to the limiter
after_try(out) == "limit"

\* variant of DeclarePop: the item is read and left on the queue
DeclarePop_peek(w) ==
    /\ dpc[w] = "pop"
    /\ file_queue # <<>>
    /\ ditem' = [ditem EXCEPT ![w] = Head(file_queue)]
    /\ dpc' = [dpc EXCEPT ![w] = "declare"]
    /\ UNCHANGED <<util, managers, limiter, pool, world, budget, tree, puts, disk, catalog, located, driver,
                   file_queue, declare_queue, dvirt, tvars, dlog, tlog>>

\* item = _file_queue.get(timeout=10)
DeclarePop(w) ==
    /\ dpc[w] = "pop"
    /\ file_queue # <<>>
    /\ ditem' = [ditem EXCEPT ![w] = Head(file_queue)]
    /\ file_queue' = Tail(file_queue)
    /\ dpc' = [dpc EXCEPT ![w] = "declare"]
    /\ UNCHANGED <<util, managers, limiter, pool, world, budget, tree, puts, disk, catalog, located, driver, declare_queue,
                   dvirt, tvars, dlog, tlog>>

\* except queue.Empty: break
DeclareTimeout(w) ==
    /\ dpc[w] = "pop"
    /\ file_queue = <<>>
    /\ dpc' = [dpc EXCEPT ![w] = "exited"]
    /\ UNCHANGED <<util, managers, limiter, pool, world, budget, tree, puts, disk, catalog, located, driver, file_queue,
                   declare_queue, ditem, dvirt, tvars, dlog, tlog>>

declare_delete_arg_passed(del) == del

\* the delete argument main gives a declare worker: the literal False, not
\* args.delete ("so pass false to the delcare process")
declare_delete_arg(del) == FALSE

\* the try statement: declare_file and the put of its outcome
Declare(w, env) ==
    /\ dpc[w] = "declare"
    /\ env \in DeclareEnv
    /\ LET f == ditem[w]
           out == declare_file(f, env)
           act == declare_put(f, out, dvirt[w])
           put == act.put
       IN /\ env # "none" => budget > 0 /\ out # declare_file(f, "none")
          /\ budget' = IF env = "none" THEN budget ELSE budget - 1
          /\ catalog' = IF out \in {"Declared", "LocationError"}
                        THEN catalog \cup {f} ELSE catalog
          /\ located' = IF out = "Declared" /\ ~is_virtual_file(get_filename(name_of(f)))
                        THEN located \cup {f} ELSE located
          /\ dvirt' = IF out = "Declared"
                      THEN [dvirt EXCEPT ![w] = {is_virtual_file(name_of(f))}] ELSE dvirt
          /\ attempts' = [attempts EXCEPT ![f] = @ + 1]
          /\ outcome' = [outcome EXCEPT ![f] = out]
          /\ UNCHANGED limits
          /\ sam_calls' = [sam_calls EXCEPT
                              ![f] = @ \o declare_file_calls(f, env, validate)]
          \* declare_file: if delete: metadata_file(filename).unlink()
          /\ metaFiles' = IF declare_delete_arg(delete) /\ out = "Declared"
                          THEN metaFiles \ {f} ELSE metaFiles
          /\ UNCHANGED srcFiles
          /\ IF act.raise
             THEN /\ dpc' = [dpc EXCEPT ![w] = "crashed"]
                  /\ UNCHANGED <<declare_queue, forwarded, hbPut>>
             ELSE /\ dpc' = [dpc EXCEPT ![w] = after_try(out)]
                  /\ declare_queue' = declare_queue \o put
                  /\ forwarded' = IF put = <<f>>
                                  THEN [forwarded EXCEPT ![f] = @ + 1] ELSE forwarded
                  /\ hbPut' = IF put = <<HEARTBEAT>> THEN hbPut + 1 ELSE hbPut
    /\ UNCHANGED <<util, managers, limiter, pool, world, tree, puts, driver, file_queue, ditem, tvars, tlog>>

\* the rate limiter at the end of the iteration
DeclareLimit(w) ==
    /\ dpc[w] = "limit"
    /\ dpc' = [dpc EXCEPT ![w] = "pop"]
    /\ ditem' = [ditem EXCEPT ![w] = 0]
    /\ limits' = [limits EXCEPT ![ditem[w]] = @ + 1]
    /\ UNCHANGED <<util, managers, limiter, pool, world, budget, tree, puts, disk, catalog, located, driver, file_queue,
                   declare_queue, dvirt, tvars, attempts, outcome, forwarded, hbPut,
                   sam_calls, tlog>>

(* ------------------------ _transfer_callback -------------------------- *)
\* statuses IFDH_Client.cp may return (1 stands for every failing status);
\* "raise" is an exception out of the call
CopyEnv == {0, 17, 1}

\* variants of copy_succeeded: the status test left out, and inverted
copy_succeeded_always(result) == TRUE
copy_succeeded_inverted(result) == ~(result = 0 \/ result = 17)

\* result != 0 and result != 17: continue
copy_succeeded(result) == result = 0 \/ result = 17

\* variant of wants_cleanup: the delete flag ignored
wants_cleanup_noflag(result, del) == copy_succeeded(result)

\* an iteration reaches the unlink calls: the copy succeeded and `if not
\* delete: continue` did not leave it
wants_cleanup(result, del) == copy_succeeded(result) /\ del

\* variant of is_heartbeat: the sentinel is not recognised
is_heartbeat_never(item) == FALSE

\* if item == HEARTBEAT
is_heartbeat(item) == item = HEARTBEAT

\* Path.unlink() on a path that is present or not, with the environment
\* denying permission or not
unlink(present, deny) ==
    IF ~present THEN "FileNotFoundError"
    ELSE IF deny THEN "PermissionError"
    ELSE "unlinked"

\* variant of meta_unlink_caught: the PermissionError clause left out
meta_unlink_caught_notfound(res) == res = "FileNotFoundError"

\* except clauses around item.unlink() and meta_filename.unlink()
src_unlink_caught(res) == res = "PermissionError"
meta_unlink_caught(res) == res \in {"FileNotFoundError", "PermissionError"}

\* variant of TransferPop: a heartbeat is put back on the queue for the other
\* workers of the pool
TransferPop_reput(w) ==
    /\ tpc[w] = "pop"
    /\ declare_queue # <<>>
    /\ IF is_heartbeat(Head(declare_queue))
       THEN /\ hbPopped' = hbPopped + 1
            /\ declare_queue' = Append(Tail(declare_queue), HEARTBEAT)
            /\ UNCHANGED <<tpc, titem>>
       ELSE /\ titem' = [titem EXCEPT ![w] = Head(declare_queue)]
            /\ declare_queue' = Tail(declare_queue)
            /\ tpc' = [tpc EXCEPT ![w] = "copy"]
            /\ UNCHANGED hbPopped
    /\ UNCHANGED <<util, managers, limiter, pool, world, budget, tree, puts, disk, catalog, located, driver, file_queue,
                   dvars, tresult, dlog, copies, status, srcUnlink, metaUnlink>>

\* item = _queue.get(timeout=30), and the heartbeat test
TransferPop(w) ==
    /\ tpc[w] = "pop"
    /\ declare_queue # <<>>
    /\ declare_queue' = Tail(declare_queue)
    /\ IF is_heartbeat(Head(declare_queue))
       THEN /\ hbPopped' = hbPopped + 1
            /\ UNCHANGED <<tpc, titem>>
       ELSE /\ titem' = [titem EXCEPT ![w] = Head(declare_queue)]
            /\ tpc' = [tpc EXCEPT ![w] = "copy"]
            /\ UNCHANGED hbPopped
    /\ UNCHANGED <<util, managers, limiter, pool, world, budget, tree, puts, disk, catalog, located, driver, file_queue,
                   dvars, tresult, dlog, copies, status, srcUnlink, metaUnlink>>

\* except queue.Empty: break
TransferTimeout(w) ==
    /\ tpc[w] = "pop"
    /\ declare_queue = <<>>
    /\ tpc' = [tpc EXCEPT ![w] = "exited"]
    /\ UNCHANGED <<util, managers, limiter, pool, world, budget, tree, puts, disk, catalog, located, driver, file_queue,
                   declare_queue, dvars, titem, tresult, dlog, tlog>>

\* result = ifdh_cp(item, ...), and the tests of result and delete
TransferCopy(w, r, raises) ==
    /\ tpc[w] = "copy"
    /\ r \in CopyEnv
    /\ raises \in BOOLEAN
    /\ raises => r = 0
    /\ (raises \/ r # 0) => budget > 0
    /\ budget' = IF raises \/ r # 0 THEN budget - 1 ELSE budget
    /\ LET f == titem[w]
       IN /\ copies' = [copies EXCEPT ![f] = @ + 1]
          /\ IF raises
             THEN /\ tpc' = [tpc EXCEPT ![w] = "crashed"]
                  /\ UNCHANGED <<titem, tresult, status>>
             ELSE /\ status' = [status EXCEPT ![f] = r]
                  /\ IF wants_cleanup(r, delete)
                     THEN /\ tpc' = [tpc EXCEPT ![w] = "cleanup"]
                          /\ tresult' = [tresult EXCEPT ![w] = r]
                          /\ UNCHANGED titem
                     ELSE /\ tpc' = [tpc EXCEPT ![w] = "pop"]
                          /\ tresult' = [tresult EXCEPT ![w] = -1]
                          /\ titem' = [titem EXCEPT ![w] = 0]
    /\ UNCHANGED <<util, managers, limiter, pool, world, tree, puts, disk, catalog, located, driver, file_queue,
                   declare_queue, dvars, dlog, hbPopped, srcUnlink, metaUnlink>>

\* item.unlink() and meta_filename.unlink() with their except clauses
TransferCleanup(w, denySrc, denyMeta) ==
    /\ tpc[w] = "cleanup"
    /\ denySrc \in BOOLEAN
    /\ denyMeta \in BOOLEAN
    /\ LET f == titem[w]
           rs == unlink(f \in srcFiles, denySrc)
           goes == rs = "unlinked" \/ src_unlink_caught(rs)
           rm == unlink(f \in metaFiles, denyMeta)
           cost == (IF denySrc THEN 1 ELSE 0) + (IF denyMeta THEN 1 ELSE 0)
       IN /\ denySrc => rs = "PermissionError"
          /\ denyMeta => goes /\ rm = "PermissionError"
          /\ cost <= budget
          /\ budget' = budget - cost
          /\ srcUnlink' = [srcUnlink EXCEPT ![f] = rs]
          /\ srcFiles' = IF rs = "unlinked" THEN srcFiles \ {f} ELSE srcFiles
          /\ IF goes
             THEN /\ metaUnlink' = [metaUnlink EXCEPT ![f] = rm]
                  /\ metaFiles' = IF rm = "unlinked" THEN metaFiles \ {f} ELSE metaFiles
                  /\ IF rm = "unlinked" \/ meta_unlink_caught(rm)
                     THEN /\ tpc' = [tpc EXCEPT ![w] = "pop"]
                          /\ tresult' = [tresult EXCEPT ![w] = -1]
                          /\ titem' = [titem EXCEPT ![w] = 0]
                     ELSE /\ tpc' = [tpc EXCEPT ![w] = "crashed"]
                          /\ UNCHANGED <<titem, tresult>>
             ELSE /\ tpc' = [tpc EXCEPT ![w] = "crashed"]
                  /\ UNCHANGED <<metaUnlink, metaFiles, titem, tresult>>
    /\ UNCHANGED <<util, managers, limiter, pool, world, tree, puts, catalog, located, driver, file_queue, declare_queue,
                   dvars, dlog, hbPopped, copies, status>>

(* --------------------------- environment ------------------------------ *)
Range(q) == { q[i] : i \in 1..Len(q) }

\* the program has yet to read or unlink f: it is queued or held by a worker
InFlight(f) ==
    \/ f \in Range(file_queue) \cup Range(declare_queue)
    \/ \E w \in DWorkers : dpc[w] = "declare" /\ ditem[w] = f
    \/ \E w \in TWorkers : tpc[w] \in {"copy", "cleanup"} /\ titem[w] = f

\* Something outside the program removes a discovered file or its sidecar
\* while the program still has to read it.
EnvRemove(f, sidecar) ==
    /\ budget > 0
    /\ f \in Files
    /\ InFlight(f)
    /\ sidecar \in BOOLEAN
    /\ IF sidecar
       THEN /\ f \in metaFiles
            /\ metaFiles' = metaFiles \ {f}
            /\ UNCHANGED srcFiles
       ELSE /\ f \in srcFiles
            /\ srcFiles' = srcFiles \ {f}
            /\ UNCHANGED metaFiles
    /\ budget' = budget - 1
    /\ UNCHANGED <<util, managers, limiter, pool, world, tree, puts, catalog, located, driver, file_queue, declare_queue,
                   dvars, tvars, dlog, tlog>>

(* --------------------------- specification ---------------------------- *)
Next ==
    \/ \E e \in Entries : Scan(e)
    \/ ScanEnd
    \/ JoinDeclare
    \/ JoinTransfer
    \/ \E w \in DWorkers : DeclarePop(w)
    \/ \E w \in DWorkers : DeclareTimeout(w)
    \/ \E w \in DWorkers, env \in DeclareEnv : Declare(w, env)
    \/ \E w \in DWorkers : DeclareLimit(w)
    \/ \E w \in TWorkers : TransferPop(w)
    \/ \E w \in TWorkers : TransferTimeout(w)
    \/ \E w \in TWorkers, r \in CopyEnv, raises \in BOOLEAN : TransferCopy(w, r, raises)
    \/ \E w \in TWorkers, ds \in BOOLEAN, dm \in BOOLEAN : TransferCleanup(w, ds, dm)
    \/ \E f \in Files, sidecar \in BOOLEAN : EnvRemove(f, sidecar)

Spec == Init /\ [][Next]_vars

\* The same program later in a run: the first file started worker 1 of each
\* pool, NFILES_MIN more files followed, all eleven have left the pipeline
\* and both workers are back at their pop.  The next qualifying file starts
\* worker 2 of each pool.  tree holds the entries enumerated from here on.
InitLate ==
    /\ delete \in BOOLEAN
    /\ validate = FALSE
    /\ PoolInit
    /\ LimiterInit
    /\ UtilInit
    /\ ManagersInit
    /\ budget = LateFaults
    /\ tree = <<>>
    /\ srcFiles = {}
    /\ metaFiles = {}
    /\ catalog = {}
    /\ located = {}
    /\ drv = "scan"
    /\ nfiles_reset = NFILES_MIN
    /\ nfiles = NFILES_MIN + 1
    /\ declare_processes = 1
    /\ transfer_processes = 1
    /\ joined = 0
    /\ file_queue = <<>>
    /\ declare_queue = <<>>
    /\ dpc = [w \in DWorkers |-> IF w = 1 THEN "pop" ELSE "none"]
    /\ ditem = [w \in DWorkers |-> 0]
    /\ dvirt = [w \in DWorkers |-> IF w = 1 THEN {FALSE} ELSE {}]
    /\ tpc = [w \in TWorkers |-> IF w = 1 THEN "pop" ELSE "none"]
    /\ titem = [w \in TWorkers |-> 0]
    /\ tresult = [w \in TWorkers |-> -1]
    /\ puts = [f \in 1..MaxFiles |-> 0]
    /\ attempts = [f \in 1..MaxFiles |-> 0]
    /\ outcome = [f \in 1..MaxFiles |-> "none"]
    /\ forwarded = [f \in 1..MaxFiles |-> 0]
    /\ limits = [f \in 1..MaxFiles |-> 0]
    /\ hbPut = 0
    /\ sam_calls = [f \in 1..MaxFiles |-> <<>>]
    /\ hbPopped = 0
    /\ copies = [f \in 1..MaxFiles |-> 0]
    /\ status = [f \in 1..MaxFiles |-> -1]
    /\ srcUnlink = [f \in 1..MaxFiles |-> "none"]
    /\ metaUnlink = [f \in 1..MaxFiles |-> "none"]

LateSpec == InitLate /\ [][Next]_vars

(* ------------- the pipeline with the items' identity forgotten --------- *)
\* The loops of main, _declare_callback and _transfer_callback once more,
\* over a directory large enough for a second worker in each pool.  Queues
\* are counted, and what happens to an item is any of the ways its iteration
\* can end.

\* entries enumerated in a run of PoolSpec: NFILES_MIN + 2, of which the
\* twelfth to qualify starts the second worker of each pool
PoolFiles == 12

\* how the try statement of _declare_callback can end
PoolDeclareEnds == {"item", "heartbeat", "nothing", "raise"}

\* One turn of `for f in files` in a directory of `limit` entries.
ScanTurn(qualifies, limit) ==
    /\ p_drv = "scan"
    /\ p_scanned < limit
    /\ qualifies \in BOOLEAN
    /\ LET spawn == qualifies /\ spawns(p_nfiles_reset + 1, p_declare_processes)
           spawnD == spawn /\ below_ceiling(p_declare_processes, DECLARE_NPROCESS_MAX)
           spawnT == spawn /\ below_ceiling(p_transfer_processes, TRANSFER_NPROCESS_MAX)
       IN /\ p_scanned' = p_scanned + 1
          /\ p_file_queue' = IF qualifies THEN p_file_queue + 1 ELSE p_file_queue
          /\ p_nfiles' = IF qualifies THEN p_nfiles + 1 ELSE p_nfiles
          /\ p_since_spawn' = IF spawnD \/ spawnT THEN 0
                               ELSE IF qualifies THEN p_since_spawn + 1
                               ELSE p_since_spawn
          /\ p_nfiles_reset' = IF spawn THEN 0
                               ELSE IF qualifies THEN p_nfiles_reset + 1
                               ELSE p_nfiles_reset
          /\ p_declare_processes' =
                 IF spawnD THEN p_declare_processes + 1 ELSE p_declare_processes
          /\ p_transfer_processes' =
                 IF spawnT THEN p_transfer_processes + 1 ELSE p_transfer_processes
          /\ p_dpc' = IF spawnD THEN [p_dpc EXCEPT ![p_declare_processes + 1] = "pop"]
                      ELSE p_dpc
          /\ p_tpc' = IF spawnT THEN [p_tpc EXCEPT ![p_transfer_processes + 1] = "pop"]
                      ELSE p_tpc
    /\ UNCHANGED <<util, managers, limiter, pipeline, p_drv, p_joined, p_declare_queue, p_popped_after>>

PoolScan(qualifies) == ScanTurn(qualifies, PoolFiles)

PoolScanEnd ==
    /\ p_drv = "scan"
    /\ p_drv' = "join_declare"
    /\ p_joined' = 0
    /\ UNCHANGED <<util, managers, limiter, pipeline, p_scanned, p_nfiles_reset, p_nfiles, p_since_spawn,
                   p_declare_processes,
                   p_transfer_processes, p_file_queue, p_declare_queue, p_dpc, p_tpc,
                   p_popped_after>>

PoolJoinDeclare ==
    /\ p_drv = "join_declare"
    /\ IF p_joined < p_declare_processes
       THEN /\ Ended(p_dpc[p_joined + 1])
            /\ p_joined' = p_joined + 1
            /\ p_drv' = p_drv
       ELSE /\ p_joined' = 0
            /\ p_drv' = "join_transfer"
    /\ UNCHANGED <<util, managers, limiter, pipeline, p_scanned, p_nfiles_reset, p_nfiles, p_since_spawn,
                   p_declare_processes,
                   p_transfer_processes, p_file_queue, p_declare_queue, p_dpc, p_tpc,
                   p_popped_after>>

PoolJoinTransfer ==
    /\ p_drv = "join_transfer"
    /\ IF p_joined < p_transfer_processes
       THEN /\ Ended(p_tpc[p_joined + 1])
            /\ p_joined' = p_joined + 1
            /\ p_drv' = p_drv
       ELSE /\ p_joined' = p_joined
            /\ p_drv' = "done"
    /\ UNCHANGED <<util, managers, limiter, pipeline, p_scanned, p_nfiles_reset, p_nfiles, p_since_spawn,
                   p_declare_processes,
                   p_transfer_processes, p_file_queue, p_declare_queue, p_dpc, p_tpc,
                   p_popped_after>>

PoolDeclarePop(w) ==
    /\ p_dpc[w] = "pop"
    /\ p_file_queue > 0
    /\ p_file_queue' = p_file_queue - 1
    /\ p_dpc' = [p_dpc EXCEPT ![w] = "declare"]
    /\ p_popped_after' =
           IF \E v \in DWorkers \ {w} : p_dpc[v] = "crashed"
           THEN p_popped_after \cup {"declare"} ELSE p_popped_after
    /\ UNCHANGED <<util, managers, limiter, pipeline, p_driver, p_declare_queue, p_tpc>>

\* variant of PoolDeclareTimeout: get() without a timeout never returns on an
\* empty queue
PoolDeclareTimeout_blocks(w) ==
    /\ p_dpc[w] = "pop"
    /\ p_file_queue = 0
    /\ FALSE
    /\ p_dpc' = [p_dpc EXCEPT ![w] = "exited"]
    /\ UNCHANGED <<util, managers, limiter, pipeline, p_driver, p_file_queue, p_declare_queue, p_tpc,
                   p_popped_after>>

PoolDeclareTimeout(w) ==
    /\ p_dpc[w] = "pop"
    /\ p_file_queue = 0
    /\ p_dpc' = [p_dpc EXCEPT ![w] = "exited"]
    /\ UNCHANGED <<util, managers, limiter, pipeline, p_driver, p_file_queue, p_declare_queue, p_tpc,
                   p_popped_after>>

\* the try statement and the rate limiter
PoolDeclare(w, end) ==
    /\ p_dpc[w] = "declare"
    /\ end \in PoolDeclareEnds
    /\ p_dpc' = [p_dpc EXCEPT ![w] = IF end = "raise" THEN "crashed" ELSE "pop"]
    /\ p_declare_queue' =
           CASE end = "item" -> [p_declare_queue EXCEPT !.file = @ + 1]
             [] end = "heartbeat" -> [p_declare_queue EXCEPT !.heartbeat = @ + 1]
             [] OTHER -> p_declare_queue
    /\ UNCHANGED <<util, managers, limiter, pipeline, p_driver, p_file_queue, p_tpc, p_popped_after>>

\* _queue.get: the entry popped is a heartbeat or a file
PoolTransferPop(w, heartbeat) ==
    /\ p_tpc[w] = "pop"
    /\ heartbeat \in BOOLEAN
    /\ IF heartbeat
       THEN /\ p_declare_queue.heartbeat > 0
            /\ p_declare_queue' = [p_declare_queue EXCEPT !.heartbeat = @ - 1]
            /\ UNCHANGED <<p_tpc, p_popped_after>>
       ELSE /\ p_declare_queue.file > 0
            /\ p_declare_queue' = [p_declare_queue EXCEPT !.file = @ - 1]
            /\ p_tpc' = [p_tpc EXCEPT ![w] = "copy"]
            /\ p_popped_after' =
                   IF \E v \in TWorkers \ {w} : p_tpc[v] = "crashed"
                   THEN p_popped_after \cup {"transfer"} ELSE p_popped_after
    /\ UNCHANGED <<util, managers, limiter, pipeline, p_driver, p_file_queue, p_dpc>>

PoolTransferTimeout(w) ==
    /\ p_tpc[w] = "pop"
    /\ p_declare_queue.file = 0
    /\ p_declare_queue.heartbeat = 0
    /\ p_tpc' = [p_tpc EXCEPT ![w] = "exited"]
    /\ UNCHANGED <<util, managers, limiter, pipeline, p_driver, p_file_queue, p_declare_queue, p_dpc,
                   p_popped_after>>

\* ifdh_cp and the cleanup: the iteration ends or an exception leaves it
PoolTransfer(w, raises) ==
    /\ p_tpc[w] = "copy"
    /\ raises \in BOOLEAN
    /\ p_tpc' = [p_tpc EXCEPT ![w] = IF raises THEN "crashed" ELSE "pop"]
    /\ UNCHANGED <<util, managers, limiter, pipeline, p_driver, p_file_queue, p_declare_queue, p_dpc,
                   p_popped_after>>

PoolNext ==
    \/ \E q \in BOOLEAN : PoolScan(q)
    \/ PoolScanEnd
    \/ PoolJoinDeclare
    \/ PoolJoinTransfer
    \/ \E w \in DWorkers : PoolDeclarePop(w)
    \/ \E w \in DWorkers : PoolDeclareTimeout(w)
    \/ \E w \in DWorkers, end \in PoolDeclareEnds : PoolDeclare(w, end)
    \/ \E w \in TWorkers, hb \in BOOLEAN : PoolTransferPop(w, hb)
    \/ \E w \in TWorkers : PoolTransferTimeout(w)
    \/ \E w \in TWorkers, raises \in BOOLEAN : PoolTransfer(w, raises)

InitPool == delete = FALSE /\ validate = FALSE /\ PipelineInit /\ PoolInit /\ LimiterInit /\ UtilInit /\ ManagersInit

PoolSpec == InitPool /\ [][PoolNext]_vars

\* Every process that can take a step eventually takes one: main and each
\* worker are processes of their own, every call they make returns, and a
\* get on an empty queue returns by its timeout.
PoolDriverStep ==
    \/ \E q \in BOOLEAN : PoolScan(q)
    \/ PoolScanEnd
    \/ PoolJoinDeclare
    \/ PoolJoinTransfer
PoolDeclareStep(w) ==
    \/ PoolDeclarePop(w)
    \/ PoolDeclareTimeout(w)
    \/ \E end \in PoolDeclareEnds : PoolDeclare(w, end)
PoolTransferStep(w) ==
    \/ \E hb \in BOOLEAN : PoolTransferPop(w, hb)
    \/ PoolTransferTimeout(w)
    \/ \E raises \in BOOLEAN : PoolTransfer(w, raises)

PoolFairness ==
    /\ WF_vars(PoolDriverStep)
    /\ \A w \in DWorkers : WF_vars(PoolDeclareStep(w))
    /\ \A w \in TWorkers : WF_vars(PoolTransferStep(w))

PoolFairSpec == PoolSpec /\ PoolFairness

(* ------------------- the enumeration loop on its own ------------------- *)
\* main's for loop over a directory large enough for both pools to reach
\* their ceilings, while the workers it started have yet to pop.

\* entries enumerated in a run of DriverSpec: the 100th qualifying file
\* starts the tenth transfer worker, the 111th passes the spawn test again
DriverFiles == 112
\* workers that end while the loop is still running, in a run of DriverSpec
DriverEnds == 1

DriverScan(qualifies) == ScanTurn(qualifies, DriverFiles)

\* A started worker process ends while main is still enumerating.
DriverWorkerEnds(w, declare) ==
    /\ p_drv = "scan"
    /\ Cardinality({ v \in DWorkers : p_dpc[v] = "crashed" })
         + Cardinality({ v \in TWorkers : p_tpc[v] = "crashed" }) < DriverEnds
    /\ IF declare
       THEN /\ w \in DWorkers
            /\ p_dpc[w] = "pop"
            /\ p_dpc' = [p_dpc EXCEPT ![w] = "crashed"]
            /\ UNCHANGED p_tpc
       ELSE /\ w \in TWorkers
            /\ p_tpc[w] = "pop"
            /\ p_tpc' = [p_tpc EXCEPT ![w] = "crashed"]
            /\ UNCHANGED p_dpc
    /\ UNCHANGED <<util, managers, limiter, pipeline, p_driver, p_file_queue, p_declare_queue, p_popped_after>>

DriverNext ==
    \/ \E q \in BOOLEAN : DriverScan(q)
    \/ \E w \in TWorkers, d \in BOOLEAN : DriverWorkerEnds(w, d)
    \/ PoolScanEnd
    \/ PoolJoinDeclare
    \/ PoolJoinTransfer

DriverSpec == InitPool /\ [][DriverNext]_vars

(* ------------------ one declare worker against the clock --------------- *)
\* The loop of _declare_callback with its timing: the start of an attempt
\* (now), the time the attempt takes (dt) and the sleep of the rate limiter.

\* attempts in a run of LimiterSpec
MaxAttempts == 3
\* ticks a get may wait for an item, ticks an attempt may take
IdleTimes == {0, 500}
AttemptTimes == {0, 500, 1990, 2000, 2500}
\* smoothing factors, in units of 1/SmearDen: 1, SMEAR_MAX and 1.2
SmearFactors == {SmearDen, SMEAR_MAX, 12}

\* 1.0 / SAM_RPS_MAX, in ticks
period == TicksPerSecond \div SAM_RPS_MAX

\* variant of limiter_sleep: only the smear is slept
limiter_sleep_smear_only(dt, u) ==
    LET wait == period - dt
    IN IF wait > 0 THEN (wait * (u - SmearDen)) \div SmearDen ELSE 0

\* wait = (1.0 / SAM_RPS_MAX) - dt; if wait > 0: sleep(wait * u), with u the
\* value drawn by random.uniform(1, SMEAR_MAX), in units of 1/SmearDen
limiter_sleep(dt, u) ==
    LET wait == period - dt
    IN IF wait > 0 THEN (wait * u) \div SmearDen ELSE 0

\* item = _file_queue.get(timeout=10); now = datetime.now()
LimiterGet(idle) ==
    /\ l_pc = "get"
    /\ l_n < MaxAttempts
    /\ idle \in IdleTimes
    /\ l_pc' = "declare"
    /\ l_clock' = l_clock + idle
    /\ l_now' = l_clock + idle
    /\ l_prev' = l_now
    /\ l_first' = IF l_n = 0 THEN l_clock + idle ELSE l_first
    /\ l_n' = l_n + 1
    /\ UNCHANGED <<util, managers, pipeline, pool, l_smear, l_dt, l_slept>>

\* the try statement; last_request = datetime.now(); dt = last_request - now
LimiterDeclare(took) ==
    /\ l_pc = "declare"
    /\ took \in AttemptTimes
    /\ l_pc' = "limit"
    /\ l_clock' = l_clock + took
    /\ l_dt' = l_clock + took - l_now
    /\ UNCHANGED <<util, managers, pipeline, pool, l_smear, l_now, l_n, l_first, l_prev, l_slept>>

\* the rate limiter
LimiterSleep(u) ==
    /\ l_pc = "limit"
    /\ u \in SmearDen..l_smear
    /\ l_pc' = "get"
    /\ l_slept' = limiter_sleep(l_dt, u)
    /\ l_clock' = l_clock + limiter_sleep(l_dt, u)
    /\ UNCHANGED <<util, managers, pipeline, pool, l_smear, l_now, l_dt, l_n, l_first, l_prev>>

LimiterNext ==
    \/ \E idle \in IdleTimes : LimiterGet(idle)
    \/ \E took \in AttemptTimes : LimiterDeclare(took)
    \/ \E u \in SmearDen..l_smear : LimiterSleep(u)

InitLimiter ==
    /\ delete = FALSE
    /\ validate = FALSE
    /\ PipelineInit
    /\ PoolInit
    /\ UtilInit
    /\ ManagersInit
    /\ l_pc = "get"
    /\ l_smear \in SmearFactors
    /\ l_clock = 0
    /\ l_now = 0
    /\ l_dt = 0
    /\ l_n = 0
    /\ l_first = 0
    /\ l_prev = 0
    /\ l_slept = 0

LimiterSpec == InitLimiter /\ [][LimiterNext]_vars

(***************************************************************************)
(* main()'s entry and the helper functions, one call at a time             *)
(***************************************************************************)

\* inputs of the helper calls
SmallRuns == 120
\* run_path's documented domain: numbers of at most 8 digits
RunLimit == 100 * 100 * 100 * 100
RunNumbers ==
    (0..SmallRuns) \cup {503, 9999, 10000, 16503, 17204, 999999, 1000000,
                         12345678, RunLimit - 1, RunLimit, RunLimit + 16503}

Min(a, b) == IF a < b THEN a ELSE b
SetMax(S) == CHOOSE x \in S : \A y \in S : y <= x

\* --- Python call binding -------------------------------------------------
\* A def's parameters in order, and those without a default value.
declare_file_def ==
    [params |-> <<"filename", "dest", "validate", "delete">>,
     required |-> {"filename", "dest"}]
ifdh_cp_def ==
    [params |-> <<"fname", "dest_base", "dest_is_dir", "relative_to">>,
     required |-> {"fname"}]

\* the two calls of non-recursive mode: positional count and keywords
declare_file_call == [npos |-> 1, kw |-> {"validate", "delete"}]
ifdh_cp_call == [npos |-> 2, kw |-> {"delete"}]

\* a call binds to a def when it has no more positionals than parameters,
\* every keyword names a parameter not already bound positionally, and every
\* parameter without default is bound; otherwise Python raises TypeError
binds(def, call) ==
    LET n == Len(def.params)
        positional == { def.params[i] : i \in 1..Min(call.npos, n) }
    IN /\ call.npos <= n
       /\ call.kw \subseteq Range(def.params) \ positional
       /\ def.required \subseteq positional \cup call.kw

requires_directory_off(recursive, isdir) == FALSE

\* main raises when recursive mode is given a path that is no directory
requires_directory(recursive, isdir) == recursive /\ ~isdir

\* main() up to the creation of the queues: the calls it completes, how it
\* leaves ("0" is sys.exit(0), "pipeline" is falling through to the queues
\* and the enumeration loop), and what exists when it leaves
main_entry(recursive, isdir) ==
    IF ~recursive
    THEN IF ~binds(declare_file_def, declare_file_call)
         THEN [exit |-> "TypeError", calls |-> <<>>, queues |-> FALSE]
         ELSE IF ~binds(ifdh_cp_def, ifdh_cp_call)
              THEN [exit |-> "TypeError", calls |-> <<"declare_file">>,
                    queues |-> FALSE]
              ELSE [exit |-> "0", calls |-> <<"declare_file", "ifdh_cp">>,
                    queues |-> FALSE]
    ELSE IF requires_directory(recursive, isdir)
         THEN [exit |-> "RuntimeError", calls |-> <<>>, queues |-> FALSE]
         ELSE [exit |-> "pipeline", calls |-> <<>>, queues |-> TRUE]

\* --- run_path ------------------------------------------------------------
RECURSIVE Digits(_)
\* decimal digits of n >= 0, most significant first
Digits(n) == IF n < 10 THEN <<n>> ELSE Digits(n \div 10) \o <<n % 10>>

format_08d_unpadded(n) == Digits(n)

\* f'{n:08d}' for n >= 0: the digits, zero-filled on the left to width 8
format_08d(n) ==
    LET d == Digits(n)
        pad == 8 - Len(d)
    IN IF pad <= 0 THEN d
       ELSE [i \in 1..8 |-> IF i <= pad THEN 0 ELSE d[i - pad]]

\* [s[i:i+2] for i in range(0, len(s), 2)], the components of the path
run_path(n) ==
    LET s == format_08d(n)
    IN [k \in 1..((Len(s) + 1) \div 2) |->
            SubSeq(s, 2 * k - 1, Min(2 * k, Len(s)))]

\* --- check_env -----------------------------------------------------------
\* os.environ maps a variable to {} (unset) or {value}; val is {} (None) or
\* {string}
the(S) == CHOOSE x \in S : TRUE

check_env_any_value(environ, var, val) ==
    LET eq_str == IF val # {} THEN <<"=", the(val)>> ELSE <<>>
    IN IF environ[var] # {}
       THEN [raised |-> FALSE, value |-> environ[var], message |-> <<>>]
       ELSE [raised |-> TRUE, value |-> {},
             message |-> <<"Must set ", var>> \o eq_str
                         \o <<" environment variable.">>]

\* the message is the f-string's pieces in order
check_env(environ, var, val) ==
    LET eq_str == IF val # {} THEN <<"=", the(val)>> ELSE <<>>
    IN IF environ[var] # {} /\ (val = {} \/ environ[var] = val)
       THEN [raised |-> FALSE, value |-> environ[var], message |-> <<>>]
       ELSE [raised |-> TRUE, value |-> {},
             message |-> <<"Must set ", var>> \o eq_str
                         \o <<" environment variable.">>]

\* --- SBND_RAWDATA_REGEXP -------------------------------------------------
\* A file name is a sequence of tokens: literal text, or a maximal run of
\* decimal digits.
Lit(s) == [lit |-> s, num |-> <<>>]
Num(d) == [lit |-> "", num |-> d]
IsDigits(t) == t.num # <<>>

\* the name of the repository's test, and variants
FILENAME ==
    <<Lit("data_evb"), Num(<<0, 4>>), Lit("_"), Lit("EventBuilder"),
      Num(<<4>>), Lit("_"), Lit("art"), Num(<<1>>), Lit("_"), Lit("run"),
      Num(<<1, 7, 2, 0, 4>>), Lit("_"), Num(<<2, 5>>), Lit("_"),
      Num(<<2, 0, 2, 4, 1, 0, 1, 3>>), Lit("T"), Num(<<0, 2, 5, 4, 1, 9>>),
      Lit(".root")>>
RawNames ==
    { FILENAME,
      <<Lit("data_evb"), Num(<<1, 2>>), Lit("_"), Lit("run"), Num(<<5, 0, 3>>),
        Lit("_"), Num(<<1>>), Lit(".root")>>,
      <<Lit("data_evb"), Num(<<0, 1>>), Lit("_"), Lit("run"), Num(<<1, 6, 5, 0, 3>>),
        Lit("_"), Lit("rerun"), Num(<<2>>), Lit(".root")>>,
      <<Lit("data_evb"), Num(<<0, 4>>), Lit("_"), Lit("run"),
        Num(<<1, 7, 2, 0, 4>>), Lit("_"), Lit("x.json")>>,
      <<Lit("compressed_data_"), Lit("x"), Lit("_"), Lit("run"), Num(<<7>>),
        Lit("_"), Lit(".root")>> }

\* r".*data_evb(\d+)_.*run(\d+)_.*\.root" matched at the start of the name:
\* each .* is greedy, so the last possible 'data_evb' and then the last
\* possible 'run' are taken; the result holds one string per parenthesis
SBND_RAWDATA_REGEXP(name) ==
    LET n == Len(name)
        runs(i) == { j \in (i + 3)..(n - 2) :
                       /\ name[j] = Lit("run")
                       /\ IsDigits(name[j + 1])
                       /\ name[j + 2] = Lit("_")
                       /\ \E k \in (j + 3)..n : name[k] = Lit(".root") }
        evbs == { i \in 1..(n - 2) :
                    /\ name[i] = Lit("data_evb")
                    /\ IsDigits(name[i + 1])
                    /\ name[i + 2] = Lit("_")
                    /\ runs(i) # {} }
    IN IF evbs = {} THEN [matched |-> FALSE, groups |-> <<>>]
       ELSE LET i == SetMax(evbs)
                j == SetMax(runs(i))
            IN [matched |-> TRUE,
                groups |-> <<name[i + 1].num, name[j + 1].num>>]

RECURSIVE int(_)
\* int() of a string of decimal digits
int(d) == IF d = <<>> THEN 0 ELSE 10 * int(SubSeq(d, 1, Len(d) - 1)) + d[Len(d)]

\* scratch_eagle_paths and ifdh_cp_run_number: the run number taken from a
\* matching name, int(result.groups()[0])
run_number(name) == int(SBND_RAWDATA_REGEXP(name).groups[1])

\* --- the calls -----------------------------------------------------------
\* the caller (or a test) sets or deletes an environment variable
SetEnv(var, value) ==
    /\ UNCHANGED <<pipeline, pool, limiter, managers>>
    /\ u_environ' = [u_environ EXCEPT ![var] = value]
    /\ u_call' = <<"setenv", var, value>>
    /\ u_ret' = <<>>

CallMain(recursive, isdir) ==
    /\ UNCHANGED <<pipeline, pool, limiter, managers>>
    /\ u_call' = <<"main", recursive, isdir>>
    /\ u_ret' = main_entry(recursive, isdir)
    /\ UNCHANGED u_environ

CallRunPath(n) ==
    /\ UNCHANGED <<pipeline, pool, limiter, managers>>
    /\ u_call' = <<"run_path", n>>
    /\ u_ret' = run_path(n)
    /\ UNCHANGED u_environ

CallCheckEnv(var, val) ==
    /\ UNCHANGED <<pipeline, pool, limiter, managers>>
    /\ u_call' = <<"check_env", var, val>>
    /\ u_ret' = check_env(u_environ, var, val)
    /\ UNCHANGED u_environ

CallMatch(name) ==
    /\ UNCHANGED <<pipeline, pool, limiter, managers>>
    /\ u_call' = <<"match", name>>
    /\ u_ret' = SBND_RAWDATA_REGEXP(name)
    /\ UNCHANGED u_environ

UtilNext ==
    \/ \E var \in EnvVars, value \in {{}} \cup {{v} : v \in EnvValues} :
          SetEnv(var, value)
    \/ \E recursive \in BOOLEAN, isdir \in BOOLEAN : CallMain(recursive, isdir)
    \/ \E n \in RunNumbers : CallRunPath(n)
    \/ \E var \in EnvVars, val \in {{}} \cup {{v} : v \in EnvValues} :
          CallCheckEnv(var, val)
    \/ \E name \in RawNames : CallMatch(name)

UtilSpec == InitPool /\ [][UtilNext]_vars

(***************************************************************************)
(* GLOBUSSessionManager: add_file and submit on the main thread, one       *)
(* _threaded_submit thread at a time                                       *)
(***************************************************************************)

\* the thread has been started and has not ended
ThreadAlive == g_tpc \notin {"none", "done", "crashed"}

\* add_file, lines 106-107: with no pending task data a new TransferData is
\* made; file f is the call's argument
AddFile(f) ==
    /\ g_main = "idle"
    /\ f = g_next
    /\ f \in GFiles
    /\ g_file' = f
    /\ IF g_task = 0
       THEN /\ g_created' = g_created + 1
            /\ g_task' = g_created + 1
            /\ g_main' = "108"
       ELSE /\ UNCHANGED <<g_created, g_task>>
            /\ g_main' = "110"
    /\ UNCHANGED <<pipeline, pool, limiter, util, samproj>>
    /\ UNCHANGED <<g_rm, g_titems, g_ritems, g_running, g_ref, g_next, g_tpc,
                   g_ltask, g_lrm, g_tid, g_transfers, g_deletes>>

\* add_file, line 108: the DeleteData made with the TransferData
AddFile108 ==
    /\ g_main = "108"
    /\ g_rm' = g_created
    /\ g_main' = "110"
    /\ UNCHANGED <<pipeline, pool, limiter, util, samproj>>
    /\ UNCHANGED <<g_task, g_titems, g_ritems, g_running, g_ref, g_file, g_next,
                   g_created, g_tpc, g_ltask, g_lrm, g_tid, g_transfers, g_deletes>>

\* add_file, lines 110 and 111: self._task_data (then self._rm_task_data) is
\* read; on None the attribute lookup of add_item raises AttributeError
AddFileLoad ==
    /\ g_main \in {"110", "111"}
    /\ LET obj == IF g_main = "110" THEN g_task ELSE g_rm
       IN /\ g_ref' = obj
          /\ g_main' = IF obj = 0 THEN "AttributeError"
                       ELSE IF g_main = "110" THEN "110_add" ELSE "111_add"
    /\ UNCHANGED <<pipeline, pool, limiter, util, samproj>>
    /\ UNCHANGED <<g_task, g_rm, g_titems, g_ritems, g_running, g_file, g_next,
                   g_created, g_tpc, g_ltask, g_lrm, g_tid, g_transfers, g_deletes>>

\* add_file, lines 110 and 111: add_item appends to the object that was read
AddFileItem ==
    /\ g_main \in {"110_add", "111_add"}
    /\ IF g_main = "110_add"
       THEN /\ g_titems' = [g_titems EXCEPT ![g_ref] = Append(@, g_file)]
            /\ g_main' = "111"
            /\ UNCHANGED <<g_ritems, g_next>>
       ELSE /\ g_ritems' = [g_ritems EXCEPT ![g_ref] = Append(@, g_file)]
            /\ g_main' = "idle"
            /\ g_next' = g_next + 1
            /\ UNCHANGED g_titems
    /\ UNCHANGED <<pipeline, pool, limiter, util, samproj>>
    /\ UNCHANGED <<g_task, g_rm, g_running, g_ref, g_file, g_created, g_tpc,
                   g_ltask, g_lrm, g_tid, g_transfers, g_deletes>>

\* submit: nothing to do without task data; a live thread is joined first;
\* then a new thread is started
Submit ==
    /\ g_main = "idle"
    /\ g_task # 0
    /\ ~ThreadAlive
    /\ g_tpc' = "139"
    /\ g_ltask' = 0
    /\ g_lrm' = 0
    /\ g_tid' = 0
    /\ UNCHANGED <<pipeline, pool, limiter, util, samproj>>
    /\ UNCHANGED <<g_task, g_rm, g_titems, g_ritems, g_running, g_ref, g_file,
                   g_next, g_created, g_main, g_transfers, g_deletes>>

\* _threaded_submit, lines 139-140: copy.copy is a shallow copy, the copy
\* holds the same item list as the original
ThreadCopy ==
    /\ g_tpc \in {"139", "140"}
    /\ IF g_tpc = "139"
       THEN g_ltask' = g_task /\ g_tpc' = "140" /\ UNCHANGED g_lrm
       ELSE g_lrm' = g_rm /\ g_tpc' = "118" /\ UNCHANGED g_ltask
    /\ UNCHANGED <<pipeline, pool, limiter, util, samproj>>
    /\ UNCHANGED <<g_task, g_rm, g_titems, g_ritems, g_running, g_ref, g_file,
                   g_next, g_created, g_main, g_tid, g_transfers, g_deletes>>

\* clear_task, lines 115-119, called at line 141
ThreadClear ==
    /\ g_tpc \in {"118", "119"}
    /\ IF g_tpc = "118"
       THEN /\ g_tpc' = IF g_task = 0 THEN "145" ELSE "119"
            /\ g_task' = 0
            /\ UNCHANGED g_rm
       ELSE /\ g_rm' = 0
            /\ g_tpc' = "145"
            /\ UNCHANGED g_task
    /\ UNCHANGED <<pipeline, pool, limiter, util, samproj>>
    /\ UNCHANGED <<g_titems, g_ritems, g_running, g_ref, g_file, g_next,
                   g_created, g_main, g_ltask, g_lrm, g_tid, g_transfers, g_deletes>>

\* lines 144-157: submit_transfer sends the items the copy holds now, or
\* raises an error that is not re-tried; then _running = True
ThreadSubmitTransfer(ok) ==
    /\ g_tpc = "145"
    /\ IF ok
       THEN /\ g_transfers' = Append(g_transfers,
                                     [files |-> g_titems[g_ltask], status |-> "ACTIVE"])
            /\ g_tid' = Len(g_transfers) + 1
            /\ g_running' = TRUE
            /\ g_tpc' = "159"
       ELSE /\ g_tpc' = "crashed"
            /\ UNCHANGED <<g_transfers, g_tid, g_running>>
    /\ UNCHANGED <<pipeline, pool, limiter, util, samproj>>
    /\ UNCHANGED <<g_task, g_rm, g_titems, g_ritems, g_ref, g_file, g_next,
                   g_created, g_main, g_ltask, g_lrm, g_deletes>>

\* line 159: wait returns once the transfer task is complete, with either
\* final status
ThreadWaitTransfer(st) ==
    /\ g_tpc = "159"
    /\ st \in {"SUCCEEDED", "FAILED"}
    /\ g_transfers' = [g_transfers EXCEPT ![g_tid].status = st]
    /\ g_tpc' = "161"
    /\ UNCHANGED <<pipeline, pool, limiter, util, samproj>>
    /\ UNCHANGED <<g_task, g_rm, g_titems, g_ritems, g_running, g_ref, g_file,
                   g_next, g_created, g_main, g_ltask, g_lrm, g_tid, g_deletes>>

\* 'SUCCEEDED' in task['status']
succeeded(st) == st = "SUCCEEDED"

\* lines 161-168: return on a transfer that did not succeed, else
\* submit_delete with the copied DeleteData (an error when the copy is None)
ThreadCleanup ==
    /\ g_tpc = "161"
    /\ IF ~succeeded(g_transfers[g_tid].status)
       THEN /\ g_tpc' = "done"
            /\ UNCHANGED g_deletes
       ELSE IF g_lrm = 0
       THEN /\ g_tpc' = "crashed"
            /\ UNCHANGED g_deletes
       ELSE /\ g_deletes' = Append(g_deletes,
                                   [files |-> g_ritems[g_lrm], task |-> g_tid])
            /\ g_tpc' = "170"
    /\ UNCHANGED <<pipeline, pool, limiter, util, samproj>>
    /\ UNCHANGED <<g_task, g_rm, g_titems, g_ritems, g_running, g_ref, g_file,
                   g_next, g_created, g_main, g_ltask, g_lrm, g_tid, g_transfers>>

\* lines 170-171: wait for the delete task, then _running = False
ThreadEnd ==
    /\ g_tpc = "170"
    /\ g_running' = FALSE
    /\ g_tpc' = "done"
    /\ UNCHANGED <<pipeline, pool, limiter, util, samproj>>
    /\ UNCHANGED <<g_task, g_rm, g_titems, g_ritems, g_ref, g_file, g_next,
                   g_created, g_main, g_ltask, g_lrm, g_tid, g_transfers, g_deletes>>

\* running()
running == g_running

GlobusNext ==
    \/ \E f \in GFiles : AddFile(f)
    \/ AddFile108
    \/ AddFileLoad
    \/ AddFileItem
    \/ Submit
    \/ ThreadCopy
    \/ ThreadClear
    \/ \E ok \in BOOLEAN : ThreadSubmitTransfer(ok)
    \/ \E st \in {"SUCCEEDED", "FAILED"} : ThreadWaitTransfer(st)
    \/ ThreadCleanup
    \/ ThreadEnd

GlobusSpec == InitPool /\ [][GlobusNext]_vars

(***************************************************************************)
(* SAMProjectManager (sam.py, and sam_derived.py on IFDHProjectManager):   *)
(* the with statement on the main process and the worker processes         *)
(***************************************************************************)

\* the worker's position after each step of an iteration that goes through
worker_next_put_first(pc) ==
    CASE pc = "callback" -> "put"
      [] pc = "put" -> "transferred"
      [] pc = "transferred" -> "consumed"
      [] pc = "consumed" -> "get"

\* callback, then release_file (updateFileStatus "transferred", then
\* "consumed"), then the put on the queue, then the next getNextFile
worker_next(pc) ==
    CASE pc = "callback" -> "transferred"
      [] pc = "transferred" -> "consumed"
      [] pc = "consumed" -> "put"
      [] pc = "put" -> "get"

has_project_always(n) == TRUE

\* the test `self.nfiles == 0` of __enter__, start and __exit__, negated
has_project(n) == n # 0

\* __enter__: nothing for an empty dataset, else startProject and then
\* findProject; an error of either ends the with statement before its body,
\* and __exit__ is not called
SamEnter(res) ==
    /\ s_pc = "new"
    /\ res \in {"ok", "startProject", "findProject"}
    /\ LET n == s_dataset
       IN /\ s_nfiles' = n
          /\ IF ~has_project(n) THEN s_pc' = "body" /\ UNCHANGED s_calls
             ELSE IF res = "startProject" THEN s_pc' = "raised" /\ UNCHANGED s_calls
             ELSE /\ s_calls' = Append(s_calls, "startProject")
                  /\ s_pc' = IF res = "ok" THEN "body" ELSE "raised"
    /\ UNCHANGED <<pipeline, pool, limiter, util, globus>>
    /\ UNCHANGED <<s_class, s_dataset, s_check, s_started, s_wpc, s_wfile, s_remaining,
                   s_queue, s_log, s_ret, s_returned, s_joined>>

\* start(callback, check_locality=...): False for an empty dataset, else one
\* process per parallel slot.  sam.py's start takes no check_locality
\* (TypeError, which leaves the with body); sam_derived.py's passes it on.
SamStart(check) ==
    /\ s_pc = "body"
    /\ s_started = "no"
    /\ IF check /\ s_class = "sam"
       THEN /\ s_pc' = "leaving"
            /\ s_ret' = "TypeError"
            /\ UNCHANGED <<s_started, s_wpc, s_check>>
       ELSE IF ~has_project(s_nfiles)
       THEN /\ s_started' = "False"
            /\ s_ret' = "False"
            /\ UNCHANGED <<s_pc, s_wpc, s_check>>
       ELSE /\ s_started' = "yes"
            /\ s_ret' = "None"
            /\ s_check' = check
            /\ s_wpc' = [w \in SamWorkers |-> "get"]
            /\ UNCHANGED s_pc
    /\ UNCHANGED <<pipeline, pool, limiter, util, globus>>
    /\ UNCHANGED <<s_class, s_dataset, s_nfiles, s_calls, s_wfile, s_remaining,
                   s_queue, s_log, s_returned, s_joined>>

\* getNextFile: a file of the project not yet handed out, or nothing; on
\* nothing the worker leaves its loop
WorkerGet(w, next) ==
    /\ s_wpc[w] = "get"
    /\ next \in s_remaining \cup {0}
    /\ s_wfile' = [s_wfile EXCEPT ![w] = next]
    /\ s_remaining' = s_remaining \ {next}
    /\ s_wpc' = [s_wpc EXCEPT ![w] = IF next = 0 THEN "ended"
                                      ELSE IF s_check THEN "locality"
                                      ELSE "callback"]
    /\ UNCHANGED <<pipeline, pool, limiter, util, globus>>
    /\ UNCHANGED <<s_class, s_dataset, s_nfiles, s_pc, s_calls, s_check, s_started,
                   s_queue, s_log, s_ret, s_returned, s_joined>>

\* if not 'ONLINE' in file_locality(next_file): continue
WorkerLocality(w, loc) ==
    /\ s_wpc[w] = "locality"
    /\ loc \in Localities
    /\ LET f == s_wfile[w]
       IN IF loc = "error"
          THEN /\ s_wpc' = [s_wpc EXCEPT ![w] = "crashed"]
               /\ UNCHANGED s_log
          ELSE IF loc \in {"ONLINE", "ONLINE_AND_NEARLINE"}
          THEN /\ s_wpc' = [s_wpc EXCEPT ![w] = "callback"]
               /\ UNCHANGED s_log
          ELSE /\ s_wpc' = [s_wpc EXCEPT ![w] = "get"]
               /\ s_log' = [s_log EXCEPT ![f] = Append(@, "skipped")]
    /\ UNCHANGED <<pipeline, pool, limiter, util, globus>>
    /\ UNCHANGED <<s_class, s_dataset, s_nfiles, s_pc, s_calls, s_check, s_started,
                   s_wfile, s_remaining, s_queue, s_ret, s_returned, s_joined>>

\* callback(next_file), updateFileStatus(..., "transferred"),
\* updateFileStatus(..., "consumed") and the put on the queue, one at a time;
\* the callback may raise, which ends the process
WorkerStep(w, ok) ==
    /\ s_wpc[w] \in {"callback", "transferred", "consumed", "put"}
    /\ LET f == s_wfile[w]
           pc == s_wpc[w]
       IN IF pc = "callback" /\ ~ok
          THEN /\ s_wpc' = [s_wpc EXCEPT ![w] = "crashed"]
               /\ UNCHANGED <<s_log, s_queue>>
          ELSE /\ ok
               /\ s_wpc' = [s_wpc EXCEPT ![w] = worker_next(pc)]
               /\ s_log' = [s_log EXCEPT ![f] = Append(@, pc)]
               /\ s_queue' = IF pc = "put" THEN Append(s_queue, f) ELSE s_queue
    /\ UNCHANGED <<pipeline, pool, limiter, util, globus>>
    /\ UNCHANGED <<s_class, s_dataset, s_nfiles, s_pc, s_calls, s_check, s_started,
                   s_wfile, s_remaining, s_ret, s_returned, s_joined>>

\* get_file: None on an empty queue.  sam.py gets from self._queue, the
\* queue its workers put on.  IFDHProjectManager.get_file, which
\* sam_derived.py inherits, tests self._done_queue and then gets from
\* self._queue, an attribute no class of that hierarchy sets.
get_file(class, q) ==
    IF q = <<>> THEN [ret |-> "None", queue |-> q]
    ELSE IF class = "sam" THEN [ret |-> "file", queue |-> Tail(q)]
    ELSE [ret |-> "AttributeError", queue |-> q]

SamGetFile ==
    /\ s_pc = "body"
    /\ LET r == get_file(s_class, s_queue)
       IN /\ s_ret' = r.ret
          /\ s_queue' = r.queue
          /\ s_returned' = IF r.ret = "file"
                           THEN [s_returned EXCEPT ![Head(s_queue)] = @ + 1]
                           ELSE s_returned
          /\ s_pc' = IF r.ret = "AttributeError" THEN "leaving" ELSE s_pc
    /\ UNCHANGED <<pipeline, pool, limiter, util, globus>>
    /\ UNCHANGED <<s_class, s_dataset, s_nfiles, s_calls, s_check, s_started, s_wpc,
                   s_wfile, s_remaining, s_log, s_joined>>

\* the with body ends
SamLeave ==
    /\ s_pc = "body"
    /\ s_pc' = "leaving"
    /\ UNCHANGED <<pipeline, pool, limiter, util, globus>>
    /\ UNCHANGED <<s_class, s_dataset, s_nfiles, s_calls, s_check, s_started, s_wpc,
                   s_wfile, s_remaining, s_queue, s_log, s_ret, s_returned, s_joined>>

\* __exit__: for t in self._processes: t.join()
SamExitJoin ==
    /\ s_pc = "leaving"
    /\ s_joined < Cardinality({ w \in SamWorkers : s_wpc[w] # "none" })
    /\ s_wpc[s_joined + 1] \in {"ended", "crashed"}
    /\ s_joined' = s_joined + 1
    /\ UNCHANGED <<pipeline, pool, limiter, util, globus>>
    /\ UNCHANGED <<s_class, s_dataset, s_nfiles, s_pc, s_calls, s_check, s_started,
                   s_wpc, s_wfile, s_remaining, s_queue, s_log, s_ret, s_returned>>

\* __exit__ after the joins: nothing for an empty dataset, else endProject
SamExitEnd ==
    /\ s_pc = "leaving"
    /\ s_joined = Cardinality({ w \in SamWorkers : s_wpc[w] # "none" })
    /\ s_pc' = "exited"
    /\ s_calls' = IF has_project(s_nfiles) THEN Append(s_calls, "endProject")
                  ELSE s_calls
    /\ UNCHANGED <<pipeline, pool, limiter, util, globus>>
    /\ UNCHANGED <<s_class, s_dataset, s_nfiles, s_check, s_started, s_wpc, s_wfile,
                   s_remaining, s_queue, s_log, s_ret, s_returned, s_joined>>

SamNext ==
    \/ \E res \in {"ok", "startProject", "findProject"} : SamEnter(res)
    \/ \E check \in BOOLEAN : SamStart(check)
    \/ \E w \in SamWorkers, next \in {0} \cup SamFiles : WorkerGet(w, next)
    \/ \E w \in SamWorkers, loc \in Localities : WorkerLocality(w, loc)
    \/ \E w \in SamWorkers, ok \in BOOLEAN : WorkerStep(w, ok)
    \/ SamGetFile
    \/ SamLeave
    \/ SamExitJoin
    \/ SamExitEnd

\* a manager of either class on a dataset of 0..MaxSamFiles files
InitSam ==
    /\ delete = FALSE
    /\ validate = FALSE
    /\ PipelineInit /\ PoolInit /\ LimiterInit /\ UtilInit /\ GlobusInit
    /\ s_class \in {"sam", "derived"}
    /\ s_dataset \in 0..MaxSamFiles
    /\ s_remaining = 1..s_dataset
    /\ s_nfiles = IF s_class = "sam" THEN s_dataset ELSE 0
    /\ s_pc = "new"
    /\ s_calls = <<>>
    /\ s_check = FALSE
    /\ s_started = "no"
    /\ s_wpc = [w \in SamWorkers |-> "none"]
    /\ s_wfile = [w \in SamWorkers |-> 0]
    /\ s_queue = <<>>
    /\ s_log = [f \in SamFiles |-> <<>>]
    /\ s_ret = "none"
    /\ s_returned = [f \in SamFiles |-> 0]
    /\ s_joined = 0

SamSpec == InitSam /\ [][SamNext]_vars

(* ============================== claims ================================ *)
Virtual(f) == is_virtual_file(name_of(f))

\* f's declare iteration has run its try statement
Processed(f) == outcome[f] # "none"

\* f's transfer iteration is over: it was copied and no worker is still
\* between its copy and the end of its cleanup
TransferOver(f) ==
    /\ copies[f] > 0
    /\ \A w \in TWorkers : ~(tpc[w] \in {"copy", "cleanup"} /\ titem[w] = f)

CopyOk(f) == status[f] \in {0, 17}
CopyFailed(f) == status[f] \notin {-1, 0, 17}

\* C1 (as claimed): no file whose name is virtual is ever put on the transfer
\* queue or passed to the copy step, whatever its registration outcome and
\* whatever the worker processed before.
C1_VirtualNeverTransferred ==
    \A f \in Files :
        Virtual(f) => /\ forwarded[f] = 0
                      /\ f \notin Range(declare_queue)
                      /\ copies[f] = 0
                      /\ \A w \in TWorkers : titem[w] # f

\* C2: a transfer worker unlinks a source file or its sidecar only after the
\* copy of that same file returned 0 or 17; nothing is unlinked before the
\* copy, after a copy with another status, or for a heartbeat (which is no
\* file and leaves every file's unlink record untouched).
C2_UnlinkOnlyAfterCopyOk ==
    \A f \in Files :
        (srcUnlink[f] # "none" \/ metaUnlink[f] # "none")
            => /\ copies[f] = 1
               /\ status[f] \in {0, 17}

C2_Witness ==
    \E f \in Files : /\ srcUnlink[f] = "unlinked"
                     /\ metaUnlink[f] = "unlinked"
                     /\ status[f] = 17
                     /\ hbPopped > 0

\* C3 (as claimed): for every file a transfer worker popped, source and
\* sidecar are both deleted if and only if the copy returned 0 or 17 and the
\* delete flag was set, and never exactly one of the two.
C3_BothDeletedIffOkAndFlag ==
    \A f \in Files :
        TransferOver(f) =>
            /\ srcUnlink[f] = "unlinked" <=> (CopyOk(f) /\ delete)
            /\ metaUnlink[f] = "unlinked" <=> (CopyOk(f) /\ delete)

\* C3 (amended): the worker calls unlink on the source if and only if the
\* copy returned 0 or 17 and the delete flag was set, and then on the sidecar
\* too unless the source unlink raised FileNotFoundError; otherwise it unlinks
\* neither.  An unlink that did not fail removed its file.
C3_UnlinkAttemptedIffOkAndFlag ==
    \A f \in Files :
        TransferOver(f) =>
            /\ srcUnlink[f] # "none" <=> (CopyOk(f) /\ delete)
            /\ metaUnlink[f] # "none"
                   <=> (CopyOk(f) /\ delete /\ srcUnlink[f] # "FileNotFoundError")
            /\ srcUnlink[f] = "unlinked" => f \notin srcFiles
            /\ metaUnlink[f] = "unlinked" => f \notin metaFiles

C3_Witness ==
    \E f \in Files : /\ TransferOver(f)
                     /\ delete
                     /\ srcUnlink[f] = "PermissionError"
                     /\ metaUnlink[f] = "unlinked"

\* C4 (as claimed): a non-virtual file the catalog reports as already existing
\* is put on the transfer queue, whatever the worker processed before and also
\* when it is the worker's first item.
C4_DuplicateForwarded ==
    \A f \in Files :
        (outcome[f] = "FileAlreadyExists" /\ ~Virtual(f)) => forwarded[f] = 1

\* C5 (as claimed): a file whose registration fails with metadata-not-found,
\* invalid-metadata or file-not-found is not put on the transfer queue and
\* exactly one heartbeat is put for it; so when every file lacks its sidecar
\* the heartbeats put equal the files processed and nothing is copied.
HeartbeatFiles == { f \in Files : outcome[f] \in HeartbeatOutcomes }

C5_HeartbeatPerFailure ==
    /\ \A f \in HeartbeatFiles : forwarded[f] = 0 /\ copies[f] = 0
    /\ hbPut = Cardinality(HeartbeatFiles)

C5_HeartbeatInsteadOfItem ==
    /\ C5_HeartbeatPerFailure
    /\ (\A f \in Files : ~tree[f].sidecar)
           => /\ hbPut = Cardinality({ f \in Files : Processed(f) })
              /\ \A f \in Files : copies[f] = 0

\* C5 (amended): as claimed, with the batch statement limited to names that
\* do not start with 'hist' (get_metadata refuses those before it looks for
\* the sidecar).
C5_HeartbeatInsteadOfItemNoHist ==
    /\ C5_HeartbeatPerFailure
    /\ (\A f \in Files : ~tree[f].sidecar /\ ~startswith(name_of(f), "hist"))
           => /\ hbPut = Cardinality({ f \in Files : Processed(f) })
              /\ \A f \in Files : copies[f] = 0

C5_Witness ==
    /\ Len(tree) = MaxFiles
    /\ \A f \in Files : ~tree[f].sidecar /\ Processed(f)
    /\ hbPut = MaxFiles
    /\ hbPopped = MaxFiles

\* C6: a transfer worker that pops a heartbeat makes no copy call, unlinks
\* nothing and changes nothing but the queue it popped from (and the count
\* of heartbeats popped); it is at the pop again.
C6_HeartbeatHasNoEffect ==
    [][(declare_queue # <<>> /\ Head(declare_queue) = HEARTBEAT
            /\ declare_queue' = Tail(declare_queue))
        => /\ hbPopped' = hbPopped + 1
           /\ UNCHANGED <<world, budget, tree, disk, catalog, located, driver,
                          file_queue, dvars, tvars, dlog, copies, status,
                          srcUnlink, metaUnlink>>]_vars

C6_Witness ==
    /\ hbPopped > 0
    /\ \E w \in TWorkers : tpc[w] = "pop"

\* C7: after a copy that returned a status other than 0 or 17 nothing of the
\* file is unlinked, the file is on no queue and held by no worker (the
\* worker went on to its next pop), and it was copied only that once.
C7_FailedCopyDropped ==
    \A f \in Files :
        CopyFailed(f) =>
            /\ srcUnlink[f] = "none" /\ metaUnlink[f] = "none"
            /\ f \notin Range(file_queue) \cup Range(declare_queue)
            /\ \A w \in TWorkers : titem[w] # f
            /\ copies[f] = 1

C7_Witness ==
    \E f \in Files : /\ CopyFailed(f)
                     /\ delete
                     /\ \E w \in TWorkers : tpc[w] = "copy"

\* C8 (as claimed): an expected registration failure (metadata missing or
\* invalid, source missing, duplicate) never terminates the declare worker.
C8_ExpectedFailureKeepsWorker ==
    \A w \in DWorkers :
        dpc[w] = "crashed"
            => outcome[ditem[w]] \notin HeartbeatOutcomes \cup {"FileAlreadyExists"}

\* C9: in the cleanup after a successful copy, a missing sidecar or a
\* permission error on unlinking the source or the sidecar does not terminate
\* the transfer worker: it has let go of the file and is in its loop.
C9_CleanupErrorsTolerated ==
    \A f \in Files :
        (srcUnlink[f] = "PermissionError"
             \/ metaUnlink[f] \in {"FileNotFoundError", "PermissionError"})
            => \A w \in TWorkers : titem[w] # f

C9_Witness ==
    \E f \in Files : /\ srcUnlink[f] = "PermissionError"
                     /\ metaUnlink[f] = "FileNotFoundError"
                     /\ \E w \in TWorkers : tpc[w] = "pop"


(* C10: when a registration or copy step raises an exception outside the
   anticipated kinds, only the worker that raised it terminates: the step
   changes neither a queue nor another worker nor the driver; a worker at its
   pop with an entry in its queue can pop it; and the run cannot stop before
   the driver has passed both join loops. *)
C10_CrashStep ==
    /\ \A w \in DWorkers :
           (p_dpc[w] # "crashed" /\ p_dpc'[w] = "crashed") =>
               /\ \A v \in DWorkers \ {w} : p_dpc'[v] = p_dpc[v]
               /\ UNCHANGED <<p_tpc, p_file_queue, p_declare_queue, p_driver>>
    /\ \A w \in TWorkers :
           (p_tpc[w] # "crashed" /\ p_tpc'[w] = "crashed") =>
               /\ \A v \in TWorkers \ {w} : p_tpc'[v] = p_tpc[v]
               /\ UNCHANGED <<p_dpc, p_file_queue, p_declare_queue, p_driver>>

C10_Available ==
    /\ \A w \in DWorkers :
           (p_dpc[w] = "pop" /\ p_file_queue > 0) => ENABLED PoolDeclarePop(w)
    /\ \A w \in TWorkers :
           (p_tpc[w] = "pop" /\ p_declare_queue.file > 0)
               => ENABLED PoolTransferPop(w, FALSE)
    /\ p_drv # "done" => ENABLED PoolNext

C10_OnlyRaisingWorkerEnds == []C10_Available /\ [][C10_CrashStep]_vars

\* both pools lost a worker to an exception, the other worker of each popped
\* an item afterwards, and the driver has passed both join loops
C10_Witness ==
    /\ p_drv = "done"
    /\ \E w \in DWorkers : p_dpc[w] = "crashed"
    /\ \E w \in TWorkers : p_tpc[w] = "crashed"
    /\ p_popped_after = {"declare", "transfer"}
    /\ p_file_queue = 0

(* ---------------------------- C11 .. C20 ------------------------------ *)
\* q2 is q after one put / q after at most one get
IsPut(q, q2) == Len(q2) = Len(q) + 1 /\ SubSeq(q2, 1, Len(q)) = q
IsGet(q, q2) == q2 = q \/ (q # <<>> /\ q2 = Tail(q))

\* a step of a transfer worker / of a declare worker that is running
TransferStep ==
    \/ \E w \in TWorkers : tpc[w] # "none" /\ tpc'[w] # tpc[w]
    \/ hbPopped' # hbPopped
DeclareStep == \E w \in DWorkers : dpc[w] # "none" /\ dpc'[w] # dpc[w]

(* C11: only the driver's enumeration loop puts entries on file_queue (the
   spec's declare queue) and only declare workers put entries on
   declare_queue (the spec's transfer queue); a transfer worker's step puts
   nothing on either queue and a declare worker's step puts nothing on
   file_queue. *)
C11_QueueProducers ==
    [][ /\ IsPut(file_queue, file_queue') \/ IsGet(file_queue, file_queue')
        /\ IsPut(declare_queue, declare_queue') \/ IsGet(declare_queue, declare_queue')
        /\ IsPut(file_queue, file_queue') =>
               drv = "scan" /\ Len(tree') = Len(tree) + 1 /\ ~TransferStep /\ ~DeclareStep
        /\ IsPut(declare_queue, declare_queue') =>
               /\ \E w \in DWorkers : dpc[w] = "declare" /\ dpc'[w] = "limit"
               /\ ~TransferStep
               /\ UNCHANGED driver
        /\ TransferStep => /\ file_queue' = file_queue
                           /\ IsGet(declare_queue, declare_queue')
        /\ DeclareStep => IsGet(file_queue, file_queue')
      ]_vars

\* the enumeration fed file_queue, a declare worker fed declare_queue with a
\* file and with a heartbeat, and a transfer worker consumed both
C11_Witness ==
    /\ hbPopped > 0
    /\ \E f \in Files : forwarded[f] = 1 /\ copies[f] = 1
    /\ file_queue = <<>>
    /\ declare_queue = <<>>

\* f is on its way to the copy step, in it or past it
Transferring(f) ==
    \/ f \in Range(declare_queue)
    \/ \E w \in TWorkers : tpc[w] \in {"copy", "cleanup"} /\ titem[w] = f
    \/ copies[f] > 0

(* C12: a file reaches the transfer queue and the copy step only after the
   registration attempt for that same file ended in success or in
   already-registered; a file never popped by a declare worker, or whose
   registration ended with metadata missing, metadata invalid or source
   missing, is never copied. *)
C12_CopiedOnlyAfterRegistration ==
    \A f \in Files :
        Transferring(f) => outcome[f] \in {"Declared", "FileAlreadyExists"}

\* one file copied after a successful registration, another after the
\* catalog answered already-registered
C12_Witness ==
    /\ \E f \in Files : outcome[f] = "Declared" /\ copies[f] = 1
    /\ \E f \in Files : outcome[f] = "FileAlreadyExists" /\ copies[f] = 1

\* how often f occurs in queue q
Occurrences(q, f) == Cardinality({ i \in 1..Len(q) : q[i] = f })

\* the places of each stage that hold f: queue slots and workers
DeclareHolders(f) ==
    Occurrences(file_queue, f)
    + Cardinality({ w \in DWorkers : dpc[w] \in {"declare", "limit"} /\ ditem[w] = f })
TransferHolders(f) ==
    Occurrences(declare_queue, f)
    + Cardinality({ w \in TWorkers : tpc[w] \in {"copy", "cleanup"} /\ titem[w] = f })

(* C13: within one run each discovered file is put on file_queue at most
   once, submitted for registration at most once and passed to the copy step
   at most once, and at no time do two workers of a pool, or a worker and a
   queue slot of the same stage, hold the same file. *)
C13_EachFileOnce ==
    \A f \in Files :
        /\ puts[f] <= 1
        /\ attempts[f] <= 1
        /\ forwarded[f] <= 1
        /\ copies[f] <= 1
        /\ DeclareHolders(f) <= 1
        /\ TransferHolders(f) <= 1

\* two declare workers have each popped and registered a file, and two
\* transfer workers are copying at the same time
C13_Witness ==
    /\ \A f \in 1..MaxFiles : f \in Files /\ attempts[f] = 1
    /\ dpc[1] = "limit" /\ dpc[2] = "limit" /\ ditem[1] # ditem[2]
    /\ tpc[1] = "copy" /\ tpc[2] = "copy" /\ titem[1] # titem[2]

(* C14: while at least one and fewer than NFILES_MIN qualifying files have
   been discovered, exactly one declare worker and exactly one transfer
   worker have been started, however far below their ceilings the pools are;
   none is started before the first qualifying file and both are started
   with it. *)
C14_SmallBatchOneWorkerEach ==
    /\ p_nfiles = 0 => p_declare_processes = 0 /\ p_transfer_processes = 0
    /\ (p_nfiles >= 1 /\ p_nfiles < NFILES_MIN) =>
           /\ p_declare_processes = 1 /\ p_transfer_processes = 1
           /\ p_dpc[1] # "none" /\ p_tpc[1] # "none"
           /\ \A w \in DWorkers \ {1} : p_dpc[w] = "none"
           /\ \A w \in TWorkers \ {1} : p_tpc[w] = "none"

\* a run over nine qualifying files (and three entries passed over) that has
\* returned with one worker in each pool
C14_Witness ==
    /\ p_drv = "done"
    /\ p_scanned = PoolFiles
    /\ p_nfiles = NFILES_MIN - 1
    /\ p_declare_processes = 1 /\ p_transfer_processes = 1

(* C15: at every point of a run at most DECLARE_NPROCESS_MAX declare workers
   and at most TRANSFER_NPROCESS_MAX transfer workers have been started,
   however many files are discovered and whether or not a worker started
   earlier has ended already. *)
C15_Ceilings ==
    /\ p_declare_processes <= DECLARE_NPROCESS_MAX
    /\ p_transfer_processes <= TRANSFER_NPROCESS_MAX
    /\ Cardinality({ w \in DWorkers : p_dpc[w] # "none" }) = p_declare_processes
    /\ Cardinality({ w \in TWorkers : p_tpc[w] # "none" }) = p_transfer_processes

\* both pools stand at their ceiling, a worker has ended, and the spawn test
\* has passed once more (at the 111th qualifying file) without a new worker
C15_Witness ==
    /\ p_declare_processes = DECLARE_NPROCESS_MAX
    /\ p_transfer_processes = TRANSFER_NPROCESS_MAX
    /\ \E w \in DWorkers : p_dpc[w] = "crashed"
    /\ p_nfiles = 111
    /\ p_nfiles_reset = 0

\* a turn of the loop that starts a process
SpawnStep ==
    \/ p_declare_processes' > p_declare_processes
    \/ p_transfer_processes' > p_transfer_processes

(* C16: after the start of the first workers, a worker of either pool is
   started only by a file that brings the qualifying files discovered since
   the previous start to at least NFILES_MIN, and every start sets
   nfiles_reset back to zero. *)
C16_SpawnOnlyAfterBatch ==
    [][SpawnStep => /\ p_nfiles_reset' = 0
                    /\ p_declare_processes > 0 => p_since_spawn + 1 >= NFILES_MIN
      ]_vars

\* the third declare worker has just been started, by the 23rd file
C16_Witness ==
    /\ p_declare_processes = 3
    /\ p_transfer_processes = 3
    /\ p_nfiles = 23
    /\ p_nfiles_reset = 0

\* the worker process has exited, by leaving its loop or by an exception
Gone(pc) == pc \in {"exited", "crashed"}

C17_Order ==
    /\ p_drv \in {"join_transfer", "done"} =>
           \A w \in 1..p_declare_processes : Gone(p_dpc[w])
    /\ p_drv = "join_declare" =>
           \A w \in 1..p_joined : Gone(p_dpc[w])
    /\ p_drv = "join_transfer" =>
           \A w \in 1..p_joined : Gone(p_tpc[w])
    /\ p_drv = "done" =>
           \A w \in 1..p_transfer_processes : Gone(p_tpc[w])

C17_Step ==
    /\ p_drv' # p_drv =>
           <<p_drv, p_drv'>> \in { <<"scan", "join_declare">>,
                                   <<"join_declare", "join_transfer">>,
                                   <<"join_transfer", "done">> }
    /\ p_drv # "scan" =>
           /\ UNCHANGED <<p_scanned, p_nfiles, p_declare_processes, p_transfer_processes>>
           /\ p_file_queue' <= p_file_queue
    /\ p_drv = "scan" => p_joined' = 0

(* C17: the driver starts waiting for workers only after the enumeration has
   finished (the loop puts nothing and starts nothing from then on), it has
   waited for every declare worker to exit before it waits for a transfer
   worker, and it returns only when every declare and every transfer worker
   it started has exited. *)
C17_ShutdownSequence == []C17_Order /\ [][C17_Step]_vars

\* the driver has joined both declare workers and the first transfer worker
\* and waits for the second, which is still copying
C17_Witness ==
    /\ p_drv = "join_transfer"
    /\ p_joined = 1
    /\ p_declare_processes = 2
    /\ p_dpc[1] = "exited" /\ p_dpc[2] = "exited"
    /\ p_tpc[1] = "exited" /\ p_tpc[2] = "copy"

\* a worker leaves its loop by the break only from a pop on an empty queue
C18_ExitByTimeout ==
    /\ \A w \in DWorkers :
           (p_dpc[w] # "exited" /\ p_dpc'[w] = "exited") =>
               p_dpc[w] = "pop" /\ p_file_queue = 0
    /\ \A w \in TWorkers :
           (p_tpc[w] # "exited" /\ p_tpc'[w] = "exited") =>
               /\ p_tpc[w] = "pop"
               /\ p_declare_queue.file = 0 /\ p_declare_queue.heartbeat = 0

\* main has returned and every worker it started has ended
C18_Returned ==
    /\ p_drv = "done"
    /\ \A w \in DWorkers : p_dpc[w] \in {"none", "exited", "crashed"}
    /\ \A w \in TWorkers : p_tpc[w] \in {"none", "exited", "crashed"}

(* C18: for a finite directory, with every catalog and copy call returning,
   the pipeline terminates: a worker leaves its loop normally only when a pop
   times out on an empty queue, every worker eventually ends, and the driver
   then returns. *)
C18_Terminates == <>[]C18_Returned /\ [][C18_ExitByTimeout]_vars

\* main has returned from a run of twelve qualifying files in which both
\* workers of each pool left their loop by the timeout on an empty queue
C18_Witness ==
    /\ p_drv = "done"
    /\ p_nfiles = PoolFiles
    /\ p_file_queue = 0
    /\ p_declare_queue = [file |-> 0, heartbeat |-> 0]
    /\ \A w \in 1..2 : p_dpc[w] = "exited" /\ p_tpc[w] = "exited"

\* a regular file whose name neither ends in ".json" nor starts with
\* "Supplemental"
Qualifying(f) ==
    /\ tree[f].isfile
    /\ name_of(f).last # ".json"
    /\ ~startswith(name_of(f), "Supplemental")

(* C19 (as claimed): the paths the discoverer puts on file_queue are exactly
   the regular files under the root whose name neither ends in ".json" nor
   starts with "Supplemental"; a directory is never put and each qualifying
   path is put exactly once. *)
C19_EnumeratesExactly ==
    \A f \in Files : puts[f] = IF Qualifying(f) THEN 1 ELSE 0

(* C20: for one declare worker with ceiling SAM_RPS_MAX and any smoothing
   factor of at least 1, the starts of two consecutive registration attempts
   are at least 1/SAM_RPS_MAX apart, so the n-th attempt starts at least
   (n-1)/SAM_RPS_MAX after the first; the limiter sleeps (1/R - elapsed)*u
   with u in [1, S] when elapsed < 1/R and does not sleep when
   elapsed >= 1/R. *)
C20_RateLimit ==
    /\ l_n >= 2 => l_now - l_prev >= period
    /\ l_n >= 1 => l_now - l_first >= (l_n - 1) * period
    /\ (l_pc = "get" /\ l_n >= 1) =>
           IF l_dt < period
           THEN /\ l_slept * SmearDen >= (period - l_dt) * SmearDen
                /\ l_slept * SmearDen <= (period - l_dt) * l_smear
                /\ l_clock - l_now >= period
           ELSE l_slept = 0 /\ l_clock - l_now = l_dt

\* three attempts spaced by exactly 1/SAM_RPS_MAX, the last of which took
\* longer than that and was not followed by a sleep
C20_Witness ==
    /\ l_n = MaxAttempts
    /\ l_now - l_first = (MaxAttempts - 1) * period
    /\ l_pc = "get"
    /\ l_dt > period
    /\ l_slept = 0

(* ---------------------------- C21 .. C30 ------------------------------ *)
\* f's attempt has been made and its iteration did not end in an uncaught
\* exception / has reached the end of the loop body
Survived(f) ==
    /\ attempts[f] = 1
    /\ \A w \in DWorkers : ~(dpc[w] = "crashed" /\ ditem[w] = f)
IterationOver(f) ==
    /\ Survived(f)
    /\ \A w \in DWorkers : ~(dpc[w] = "limit" /\ ditem[w] = f)

C21_Once ==
    \A f \in Files :
        /\ limits[f] <= 1
        /\ limits[f] = 1 <=> IterationOver(f)

\* a step of worker w through its rate limiter touches nothing but w
C21_Local ==
    \A w \in DWorkers :
        (dpc[w] = "limit" /\ dpc'[w] # "limit") =>
            /\ dpc'[w] = "pop"
            /\ \A v \in DWorkers \ {w} :
                   dpc'[v] = dpc[v] /\ ditem'[v] = ditem[v] /\ dvirt'[v] = dvirt[v]
            /\ UNCHANGED <<dvirt, tvars, file_queue, declare_queue, disk, catalog, located,
                           driver>>

\* a worker takes its next item only with the limiter of its previous one run
C21_BeforeNextPop ==
    \A w \in DWorkers :
        (dpc[w] # "declare" /\ dpc'[w] = "declare") =>
            \A f \in Files : Survived(f) => limits[f] = 1 \/
                                            \E v \in DWorkers \ {w} : dpc[v] = "limit" /\ ditem[v] = f

(* C21: in every declare-worker iteration that does not end in an uncaught
   exception the rate limiter runs exactly once, after the registration
   attempt and before the worker's next pop, whether the attempt ended in
   success, duplicate or a heartbeat; the limiter's step reads and writes
   nothing of another worker. *)
C21_LimiterEveryIteration ==
    []C21_Once /\ [][C21_Local /\ C21_BeforeNextPop]_vars

\* both declare workers have run the limiter, one after a heartbeat outcome
\* and one after a success
C21_Witness ==
    /\ \E f \in Files : limits[f] = 1 /\ outcome[f] \in HeartbeatOutcomes
    /\ \E f \in Files : limits[f] = 1 /\ outcome[f] = "Declared"
    /\ dpc[1] = "pop" /\ dpc[2] = "pop"


\* the last call was main(recursive, isdir)
MainCalled(recursive, isdir) == u_call = <<"main", recursive, isdir>>

\* nothing of the pipeline exists or has happened
NothingStarted ==
    /\ file_queue = <<>> /\ declare_queue = <<>>
    /\ declare_processes = 0 /\ transfer_processes = 0
    /\ \A f \in Files : attempts[f] = 0 /\ copies[f] = 0
                        /\ srcUnlink[f] = "none" /\ metaUnlink[f] = "none"

\* C22: in recursive mode with a path that is no directory, main raises
\* RuntimeError having called neither declare_file nor ifdh_cp, before the
\* queues exist: nothing is on a queue, no worker exists, and no
\* registration, copy or deletion has happened.
C22_RaisesBeforePipeline ==
    MainCalled(TRUE, FALSE) =>
        /\ u_ret.exit = "RuntimeError"
        /\ u_ret.calls = <<>>
        /\ ~u_ret.queues
        /\ NothingStarted

C22_Witness == MainCalled(TRUE, FALSE) /\ u_ret.exit = "RuntimeError"

\* C23 (as claimed): in non-recursive mode main performs exactly one
\* declare_file call followed by exactly one ifdh_cp call, spawns no worker
\* and exits with code 0.
C23_OneDeclareOneCopy ==
    \A isdir \in BOOLEAN :
        MainCalled(FALSE, isdir) =>
            /\ u_ret.calls = <<"declare_file", "ifdh_cp">>
            /\ u_ret.exit = "0"
            /\ ~u_ret.queues
            /\ declare_processes = 0 /\ transfer_processes = 0

\* the k-th base-100 digit of n, most significant of four first, written as
\* two decimal digits
Base100(n, k) ==
    LET d == (n \div (100 ^ (4 - k))) % 100 IN <<d \div 10, d % 10>>

\* C24: for 0 <= n < 10^8, run_path(n) has four components, the two-digit
\* zero-padded base-100 digits of n from most to least significant (503 gives
\* 00/00/05/03, 16503 gives 00/01/65/03), and no other run number of that
\* range gives the same path.
C24_RunPathBase100 ==
    (u_call[1] = "run_path" /\ u_call[2] < RunLimit) =>
        LET n == u_call[2]
        IN /\ Len(u_ret) = 4
           /\ \A k \in 1..4 : u_ret[k] = Base100(n, k)
           /\ n = 503 => u_ret = << <<0, 0>>, <<0, 0>>, <<0, 5>>, <<0, 3>> >>
           /\ n = 16503 => u_ret = << <<0, 0>>, <<0, 1>>, <<6, 5>>, <<0, 3>> >>
           /\ \A m \in RunNumbers :
                 (m < RunLimit /\ run_path(m) = u_ret) => m = n

C24_Witness ==
    /\ u_call = <<"run_path", 16503>>
    /\ u_ret = << <<0, 0>>, <<0, 1>>, <<6, 5>>, <<0, 3>> >>

\* C25 (result): check_env(var, val) returns the variable's value when var
\* is set and val is None or equal to that value; otherwise it raises
\* RuntimeError with 'Must set <var> environment variable.' when val is None
\* and 'Must set <var>=<val> environment variable.' otherwise.
C25_Result ==
    u_call[1] = "check_env" =>
        LET var == u_call[2]
            val == u_call[3]
            value == u_environ[var]
        IN IF value # {} /\ (val = {} \/ value = val)
           THEN ~u_ret.raised /\ u_ret.value = value
           ELSE /\ u_ret.raised
                /\ val = {} =>
                     u_ret.message =
                         <<"Must set ", var, " environment variable.">>
                /\ val # {} =>
                     u_ret.message =
                         <<"Must set ", var, "=", the(val),
                           " environment variable.">>

\* C25 (frame): a check_env call leaves os.environ as it was
C25_EnvironUntouched == u_call'[1] = "check_env" => u_environ' = u_environ

\* C25: check_env returns or raises as above and never modifies the
\* environment.
C25_CheckEnv == []C25_Result /\ [][C25_EnvironUntouched]_vars

\* the variable is set to another value than the one required
C25_Witness ==
    /\ u_call = <<"check_env", "____TEST", {"1"}>>
    /\ u_environ["____TEST"] = {"dummy"}
    /\ u_ret.raised
    /\ u_ret.message = <<"Must set ", "____TEST", "=", "1", " environment variable.">>

\* the digit string that follows the last 'run' of a name
RunDigits(name) ==
    name[SetMax({ j \in 1..(Len(name) - 1) :
                    name[j] = Lit("run") /\ IsDigits(name[j + 1]) }) + 1].num

\* C26 (as claimed): on an SBND raw-data name the expression matches with
\* exactly one captured group, and groups()[0], which scratch_eagle_paths and
\* ifdh_cp_run_number convert to the run number, is the digit string after
\* 'run'.
C26_OneGroupIsRun ==
    (u_call[1] = "match" /\ u_ret.matched) =>
        /\ Len(u_ret.groups) = 1
        /\ u_ret.groups[1] = RunDigits(u_call[2])
        /\ run_number(u_call[2]) = int(RunDigits(u_call[2]))

\* main has returned, nothing was removed behind the program's back, and
\* every worker left its loop by the timeout of its get
QuietReturn ==
    /\ drv = "done"
    /\ budget = MaxFaults
    /\ \A w \in DWorkers : dpc[w] # "crashed"
    /\ \A w \in TWorkers : tpc[w] # "crashed"

\* C27 (as claimed): when the driver returns, the transfer queue holds no
\* unconsumed file item: every file a declare worker put there was popped by
\* a transfer worker, however long the registrations took compared with the
\* transfer workers' 30-second timeout.
C27_TransferQueueDrained ==
    QuietReturn => \A f \in Files : f \notin Range(declare_queue)

\* C28 (as claimed): when the driver returns, the declare queue is empty:
\* every file the enumeration put there was popped by a declare worker,
\* however slowly the enumeration produced it, also after all live declare
\* workers have timed out.
C28_DeclareQueueDrained ==
    QuietReturn => file_queue = <<>>

\* workers of a pool with ceiling max started by the first n qualifying
\* files: one by the first file, one more by every 11th file after a start
Started(n, max) == IF n = 0 THEN 0 ELSE Min(max, 1 + (n - 1) \div 11)

\* C29: after n >= 1 qualifying files main has started
\* min(4, 1 + floor((n-1)/11)) declare workers and
\* min(10, 1 + floor((n-1)/11)) transfer workers, so never fewer transfer
\* than declare workers, and transfer workers are still added when the
\* declare pool is full; with no qualifying file no worker is started and
\* neither join loop has a process to wait for, so main returns at once.
C29_WorkersStarted ==
    /\ p_declare_processes = Started(p_nfiles, DECLARE_NPROCESS_MAX)
    /\ p_transfer_processes = Started(p_nfiles, TRANSFER_NPROCESS_MAX)
    /\ p_transfer_processes >= p_declare_processes
    /\ p_nfiles > 44 => p_transfer_processes > p_declare_processes
    /\ p_nfiles = 0 =>
          /\ p_declare_processes = 0 /\ p_transfer_processes = 0
          /\ p_drv = "join_declare" => ENABLED PoolJoinDeclare
          /\ p_drv = "join_transfer" => ENABLED PoolJoinTransfer

\* the 100th qualifying file has started the tenth transfer worker, long
\* after the fourth and last declare worker
C29_Witness ==
    /\ p_nfiles = 100
    /\ p_nfiles_reset = 0
    /\ p_declare_processes = 4
    /\ p_transfer_processes = 10

\* a local data file or a sidecar disappears in this step
Removal == ~(srcFiles \subseteq srcFiles') \/ ~(metaFiles \subseteq metaFiles')

\* C30 (frame): a step of a declare worker leaves every local data file and
\* every sidecar in place, whatever the delete flag; a file or sidecar
\* disappears only in a transfer worker's cleanup or by the environment.
C30_DeclareKeepsFiles ==
    /\ DeclareStep => srcFiles' = srcFiles /\ metaFiles' = metaFiles
    /\ Removal => \/ \E w \in TWorkers : tpc[w] = "cleanup" /\ tpc'[w] # tpc[w]
                  \/ budget' < budget

\* C30 (state): as long as nothing was removed behind the program's back, the
\* data file and the sidecar of an item are still there when a transfer
\* worker is about to copy it.
C30_SidecarAtCopy ==
    \A w \in TWorkers : \A f \in Files :
        (tpc[w] = "copy" /\ titem[w] = f /\ budget = MaxFaults) =>
            f \in metaFiles /\ f \in srcFiles

\* C30: in recursive mode no declare worker deletes or modifies a local data
\* file or sidecar, even with the delete flag set; the sidecar of an item
\* still exists when its copy starts and only transfer workers delete.
C30_OnlyTransferDeletes == []C30_SidecarAtCopy /\ [][C30_DeclareKeepsFiles]_vars

\* with the delete flag set, a declared file has reached a transfer worker
\* with its sidecar in place
C30_Witness ==
    /\ delete
    /\ budget = MaxFaults
    /\ \E w \in TWorkers : \E f \in Files :
          /\ tpc[w] = "copy" /\ titem[w] = f
          /\ outcome[f] = "Declared"
          /\ f \in metaFiles

(* ------------------------------ C31 .. C38 ------------------------------ *)
RECURSIVE SumOver(_, _)
\* the sum of a per-file counter over a set of files
SumOver(c, S) ==
    IF S = {} THEN 0
    ELSE LET f == CHOOSE x \in S : TRUE IN c[f] + SumOver(c, S \ {f})

\* entries ever put on the transfer queue, items ever popped from the declare
\* queue
TransferPuts == SumOver(forwarded, Files) + hbPut
DeclarePops == SumOver(puts, Files) - Len(file_queue)

\* C31 (count): the entries ever put on the transfer queue are never more
\* than the items popped from the declare queue, and a virtual item that was
\* registered has put nothing.
C31_PutsWithinPops ==
    /\ TransferPuts <= DeclarePops
    /\ \A f \in Files :
          (Virtual(f) /\ outcome[f] = "Declared") => forwarded[f] = 0

\* C31 (step): the try statement of one iteration puts at most one entry,
\* and none at all (no item, no heartbeat) for a virtual item it registered.
C31_OnePutPerIteration ==
    \A w \in DWorkers :
        (dpc[w] = "declare" /\ dpc'[w] # "declare") =>
            /\ declare_queue' = declare_queue \/ IsPut(declare_queue, declare_queue')
            /\ (Virtual(ditem[w]) /\ outcome'[ditem[w]] = "Declared") =>
                   /\ declare_queue' = declare_queue
                   /\ hbPut' = hbPut

\* C31: each declare iteration puts at most one entry on the transfer queue,
\* so the puts never exceed the pops from the declare queue, and a registered
\* virtual item puts nothing.
C31_AtMostOnePut == []C31_PutsWithinPops /\ [][C31_OnePutPerIteration]_vars

\* a virtual item is registered and its iteration is over, another item was
\* forwarded
C31_Witness ==
    /\ \E f \in Files : /\ Virtual(f) /\ outcome[f] = "Declared"
                        /\ \A w \in DWorkers : ~(dpc[w] = "declare" /\ ditem[w] = f)
    /\ \E g \in Files : forwarded[g] = 1

\* the positions of a call in f's log
CallsOf(f, name) == { i \in 1..Len(sam_calls[f]) : sam_calls[f][i].call = name }

\* C32: for each item addFileLocation is called at most once, only after a
\* declareFile for the item that returned without error, and never for a
\* virtual item; with validation requested declareFile is called only after
\* a validateFileMetadata that returned without error; when declareFile
\* reports a duplicate no location is added for the item.
C32_SamCallOrder ==
    \A f \in Files :
        /\ Cardinality(CallsOf(f, "addFileLocation")) <= 1
        /\ \A i \in CallsOf(f, "addFileLocation") :
              \E j \in CallsOf(f, "declareFile") : j < i /\ sam_calls[f][j].ok
        /\ (Virtual(f) \/ is_virtual_file(get_filename(name_of(f))))
              => CallsOf(f, "addFileLocation") = {}
        /\ validate =>
              \A i \in CallsOf(f, "declareFile") :
                  \E j \in CallsOf(f, "validateFileMetadata") :
                      j < i /\ sam_calls[f][j].ok
        /\ outcome[f] = "FileAlreadyExists" =>
              /\ CallsOf(f, "addFileLocation") = {}
              /\ f \notin located
        /\ f \in located <=>
              \E i \in CallsOf(f, "addFileLocation") : sam_calls[f][i].ok

\* with validation requested: one item was validated, declared and located,
\* and a virtual item was validated and declared without a location
C32_Witness ==
    /\ validate
    /\ \E f \in Files :
          /\ Len(sam_calls[f]) = 3
          /\ f \in located
    /\ \E g \in Files :
          /\ Virtual(g)
          /\ outcome[g] = "Declared"
          /\ Len(sam_calls[g]) = 2

\* every delete task was submitted for a transfer task that SUCCEEDED
DeleteAfterSuccess ==
    \A d \in 1..Len(g_deletes) :
        g_transfers[g_deletes[d].task].status = "SUCCEEDED"

\* no two delete tasks for one transfer task, none for a transfer that has
\* not succeeded
NoDeleteOtherwise ==
    /\ \A d, e \in 1..Len(g_deletes) : g_deletes[d].task = g_deletes[e].task => d = e
    /\ \A t \in 1..Len(g_transfers) :
          g_transfers[t].status # "SUCCEEDED" =>
              \A d \in 1..Len(g_deletes) : g_deletes[d].task # t

\* C33 (as claimed): a delete task is submitted only after the transfer task
\* of the same batch finished with status SUCCEEDED, it lists exactly the
\* source files of that batch, and no delete is submitted for a transfer that
\* did not succeed.
C33_DeleteMatchesTransfer ==
    /\ DeleteAfterSuccess
    /\ NoDeleteOtherwise
    /\ \A d \in 1..Len(g_deletes) :
          g_deletes[d].files = g_transfers[g_deletes[d].task].files

\* when the thread has ended
ThreadOver == g_tpc \in {"done", "crashed"}

\* C34 (as claimed): running() is true only while a submitted transfer or
\* its cleanup is in progress; once the submission thread has finished,
\* whatever the status of its transfer, running() is false.
C34_RunningOnlyInProgress ==
    /\ running => g_tpc \in {"159", "161", "170"}
    /\ ThreadOver => ~running

\* files whose add_file call has returned
Added == 1..(g_next - 1)

\* the transfer tasks / delete tasks that list file f
TransfersOf(f) == { t \in 1..Len(g_transfers) : f \in Range(g_transfers[t].files) }
DeletesOf(f) == { d \in 1..Len(g_deletes) : f \in Range(g_deletes[d].files) }

\* C35 (as claimed): with add_file running on the main thread beside the
\* submission thread, add_file never fails on task data the thread cleared,
\* no file is sent in two tasks, a file is in a delete list only of the task
\* that sent it, and once nothing is pending and the last transfer was
\* submitted every added file is in one transfer task.
C35_AddFileSafe ==
    /\ g_main # "AttributeError"
    /\ \A f \in GFiles :
          /\ Cardinality(TransfersOf(f)) <= 1
          /\ \A d \in DeletesOf(f) : g_deletes[d].task \in TransfersOf(f)
    /\ (g_main = "idle" /\ g_task = 0 /\ g_rm = 0 /\ g_tpc \in {"159", "161", "170", "done"})
          => \A f \in Added : Cardinality(TransfersOf(f)) = 1

\* C36: in a SAMProjectManager worker (sam.py and sam_derived.py) a file
\* obtained from getNextFile is put on the queue only after its callback has
\* returned and its status was updated to "transferred" and then "consumed",
\* in that order; a file skipped by the locality check is neither released
\* nor queued; each file obtained is queued at most once; and the worker
\* leaves its loop only when getNextFile returns nothing.
ReleaseOrder == <<"callback", "transferred", "consumed", "put">>

IsPrefix(a, b) == Len(a) <= Len(b) /\ a = SubSeq(b, 1, Len(a))

TimesQueued(f) == Cardinality({ i \in 1..Len(s_queue) : s_queue[i] = f }) + s_returned[f]

Skipped(f) == Len(s_log[f]) > 0 /\ s_log[f][1] = "skipped"

C36_QueuedAfterRelease ==
    \A f \in SamFiles :
        /\ s_log[f] = <<"skipped">> \/ IsPrefix(s_log[f], ReleaseOrder)
        /\ TimesQueued(f) <= 1
        /\ TimesQueued(f) = 1 <=> s_log[f] = ReleaseOrder
        /\ Skipped(f) => TimesQueued(f) = 0

C36_LoopEndsOnEmptyGet ==
    \A w \in SamWorkers :
        (s_wpc[w] # "ended" /\ s_wpc'[w] = "ended")
            => (s_wpc[w] = "get" /\ s_wfile'[w] = 0)

C36_WorkerOrder == []C36_QueuedAfterRelease /\ [][C36_LoopEndsOnEmptyGet]_vars

C36_Witness ==
    /\ \E f \in SamFiles : TimesQueued(f) = 1 /\ s_log[f] = ReleaseOrder
    /\ \E f \in SamFiles : s_log[f] = <<"skipped">>
    /\ \E w \in SamWorkers : s_wpc[w] = "ended"

\* C37: for a SAMProjectManager (sam.py) whose dataset has zero files,
\* entering the context starts no project, start() spawns no process and
\* returns False, get_file() returns None and exiting ends no project; in
\* general endProject is called on exit exactly when startProject was called
\* on entry, and only after every worker process has been joined.
Called(name) == \E i \in 1..Len(s_calls) : s_calls[i] = name

Spawned == { w \in SamWorkers : s_wpc[w] # "none" }

C37_EmptyDataset ==
    s_dataset = 0 =>
        /\ s_calls = <<>>
        /\ Spawned = {}
        /\ s_started # "yes"
        /\ s_ret \in {"none", "False", "None", "TypeError"}
        /\ s_pc \in {"new", "body", "leaving", "exited"}

C37_EndMatchesStart ==
    /\ Called("endProject") => s_pc = "exited"
    /\ s_pc = "exited" => (Called("endProject") <=> Called("startProject"))
    /\ Called("endProject") =>
           /\ s_joined = Cardinality(Spawned)
           /\ \A w \in Spawned : s_wpc[w] \in {"ended", "crashed"}
           /\ s_calls = <<"startProject", "endProject">>

\* start() on an empty dataset returns False; get_file() then returns None
C37_EmptyReturns ==
    s_dataset = 0 =>
        /\ (s_started = "no" /\ s_started' # "no") => s_ret' = "False"
        /\ (s_pc = "body" /\ s_queue' # s_queue) => FALSE
        /\ (s_started' = s_started /\ s_ret' # s_ret /\ s_ret' # "TypeError")
               => s_ret' = "None"

C37_ProjectLifecycle ==
    [](C37_EmptyDataset /\ C37_EndMatchesStart) /\ [][C37_EmptyReturns]_vars

C37_Witness ==
    /\ s_class = "sam"
    /\ s_dataset = 0
    /\ s_started = "False"
    /\ s_ret = "None"
    /\ s_pc = "exited"
    /\ s_calls = <<>>

\* C38: IFDHProjectManager.get_file returns None when no file has been
\* completed and otherwise returns, without blocking and without raising, a
\* file that a worker put on the done queue after its callback finished;
\* each completed file is returned at most once.
get_file_done_queue(class, q) ==
    IF q = <<>> THEN [ret |-> "None", queue |-> q]
    ELSE [ret |-> "file", queue |-> Tail(q)]

C38_GetFileReturnsCompleted ==
    s_class = "derived" =>
        /\ get_file(s_class, s_queue) = get_file_done_queue(s_class, s_queue)
        /\ s_ret # "AttributeError"
        /\ \A f \in SamFiles : s_returned[f] <= 1

============================================================================
